---------------------------- MODULE SearchProofs ----------------------------
(***************************************************************************)
(* What a search finds, when nothing changes and the index is up to date:  *)
(* SearchComplete, proved with the invariants of ServiceProofs.            *)
(***************************************************************************)
EXTENDS ServiceProofs

-----------------------------------------------------------------------------
(***************************************************************************)
(* The invariant.                                                          *)
(***************************************************************************)

\* A search that goes on from page to page is of one caller, whose credential
\* is found each time.
Known(r) == Caller(r) \in AuthenticateRequest(Do(r).as)
Allowed(r) ==
  /\ Known(r) /\ MaySearch(Caller(r), Do(r)) /\ (Caller(r).space # None => Do(r).space # None)
  /\ Uncrowded(r)

\* The candidates that are left are wanted and not shown yet, and each will be
\* a hit; they are all there is, or more than a page holds.  As many are looked
\* at as the bound allows.
Bounded(all) == IF all <= HydrateFactor * Limit THEN all ELSE HydrateFactor * Limit
StillLeft(r, got) ==
  /\ Keys(got.found) \subseteq Wanted(r) \ got.shown
  /\ got.all > Limit \/ Keys(got.found) = Wanted(r) \ got.shown
HitsOK(r) ==
  /\ StillLeft(r, Got(r))
  /\ \A d \in Got(r).found : HydrateCandidate(Caller(r), d)
  /\ Got(r).left \in Nat /\ Got(r).hits \in 0 .. Limit
  /\ Got(r).all = Got(r).hits + Cardinality(Keys(Got(r).found))
  /\ Got(r).left + Got(r).hits = Bounded(Got(r).all)

PageOK(r) ==
  /\ req[r].pc \in {"authenticate", "search"} /\ Got(r) # Nothing =>
       Got(r).space = Do(r).space /\ Got(r).shown \subseteq Wanted(r)
  /\ req[r].pc \in Searching => Got(r).shown \subseteq Wanted(r)
  /\ At(r, "candidates") => Got(r).principals = Principals(r)
  /\ At(r, "hydrate") => HitsOK(r)
  /\ At(r, "done") => \/ req[r].answer = "error"
                      \/ req[r].answer = "ok" /\ Got(r).shown = Wanted(r)

SearchOK(r) ==
  /\ req[r].pc \in {"new", "authenticate", "search", "done"} \cup Searching
  /\ ~At(r, "new") => Do(r).op = "search"
  /\ ~At(r, "new") /\ Caller(r) # None => Known(r)
  /\ req[r].pc \in {"search"} \cup Searching => Known(r)
  /\ At(r, "authenticate") /\ Got(r) # Nothing => Known(r)
  /\ ~At(r, "new") /\ Allowed(r) => PageOK(r)

SearchInv == OnlySearches =>
  /\ db = Here.db /\ index = FreshIndex
  /\ \A r \in Request : SearchOK(r)

-----------------------------------------------------------------------------
(***************************************************************************)
(* Who reaches a document, and who may see what it is of.                  *)
(***************************************************************************)

\* What is asked of the rows.
RowsOK == Coherent(db) /\ SeatsAreMembers(db) /\ References(db) /\ EventsFit(db)

\* What a search of r finds: its documents are of a principal of the caller,
\* and in place.
Reaches(r, p) == p \in Principals(r)
Matching(r, d) == Reaches(r, d.principal) /\ InPlace(r, d.space, d.room)

LEMMA ActiveSpace ==
  ASSUME RowsOK, NEW w, NEW u, IsActive(w, u)
  PROVE  w \in DOMAIN db.space
<1>1. <<w, u>> \in DOMAIN db.member
  BY DEF IsActive, Membership
<1>2. DOMAIN db.member \subseteq (DOMAIN db.space) \X (DOMAIN db.user)
  BY DEF RowsOK, References
<1> QED BY <1>1, <1>2

\* Who sees a conversation: its participants, or its workspace.
LEMMA WhoSees ==
  ASSUME RowsOK, NEW c \in DOMAIN db.room, NEW u, NEW w, NEW policy, w = db.room[c].space, policy = db.room[c].policy
  PROVE  /\ policy \in {"members", "workspace"}
         /\ policy = "members" => (ConversationVisible(c, u) <=> <<c, u>> \in db.seat)
         /\ policy = "workspace" => (ConversationVisible(c, u) <=> w # None /\ IsActive(w, u))
<1>1. PICK row : row = db.room[c]
  OBVIOUS
<1>2. policy \in {"members", "workspace"}
  BY <1>1 DEF RowsOK, Coherent
<1>3. PICK seat : seat = <<c, u>>
  OBVIOUS
<1>4. ConversationVisible(c, u) <=>
        \/ w = None /\ policy = "members" /\ seat \in db.seat
        \/ w # None /\ IsActive(w, u) /\ (policy = "workspace" \/ seat \in db.seat)
  BY <1>1, <1>3 DEF ConversationVisible, GetConversation, IsConversationParticipant
<1>5. seat \in db.seat /\ policy = "members" /\ w # None => IsActive(w, u)
  <2>1. SUFFICES ASSUME seat \in db.seat, policy = "members", w # None
                 PROVE  IsActive(w, u)
    OBVIOUS
  <2>2. seat[1] = c /\ seat[2] = u
    BY <1>3
  <2>3. <<w, u>> \in DOMAIN db.member /\ db.member[<<w, u>>] \in {"member", "admin", "owner"}
    BY <1>1, <2>1, <2>2 DEF RowsOK, SeatsAreMembers
  <2> QED BY <2>3 DEF IsActive, Membership
<1>6. policy = "members" => (ConversationVisible(c, u) <=> seat \in db.seat)
  BY <1>4, <1>5
<1>7. policy = "workspace" => (ConversationVisible(c, u) <=> w # None /\ IsActive(w, u))
  BY <1>4
<1> QED BY <1>2, <1>3, <1>6, <1>7

LEMMA MayAsk ==
  ASSUME NEW r, MaySearch(Caller(r), Do(r))
  PROVE  /\ Space(r) = None => AllowGlobal(Caller(r))
         /\ Space(r) # None => IsActive(Space(r), Caller(r).user)
BY DEF MaySearch, Space, AllowGlobal, WorkspaceVisible

LEMMA WhoReaches ==
  ASSUME RowsOK, NEW r, MaySearch(Caller(r), Do(r)), NEW x,
         NEW u, NEW w, u = Caller(r).user, w = Space(r)
  PROVE  /\ Reaches(r, <<"user", x>>) <=> w = None /\ x = u
         /\ Reaches(r, <<"workspace", x>>) <=> IsActive(x, u) /\ (w # None => x = w)
         /\ Reaches(r, <<"conversation", x>>) <=> x \in MemberConversations(u, w)
<1>1. PICK global : global = AllowGlobal(Caller(r))
  OBVIOUS
<1>2. (w = None => global) /\ (w # None => IsActive(w, u))
  BY <1>1, MayAsk
<1>3. PICK spaces : spaces = IF w = None THEN ListActiveWorkspacesByUser(u) ELSE {w}
  OBVIOUS
<1>4. PICK rooms : rooms = MemberConversations(u, w)
  OBVIOUS
<1>5. \A p : Reaches(r, p) <=>
        p \in (IF global /\ w = None THEN {<<"user", u>>} ELSE {})
              \cup {<<"workspace", y>> : y \in spaces} \cup {<<"conversation", y>> : y \in rooms}
  BY <1>1, <1>3, <1>4 DEF Reaches, Principals, ResolveQueryPrincipals, Things
<1>6. x \in spaces <=> IsActive(x, u) /\ (w # None => x = w)
  BY <1>2, <1>3, ActiveSpace DEF ListActiveWorkspacesByUser
<1>7. Reaches(r, <<"user", x>>) <=> w = None /\ x = u
  BY <1>2, <1>5
<1>8. Reaches(r, <<"workspace", x>>) <=> x \in spaces
  BY <1>5
<1>9. Reaches(r, <<"conversation", x>>) <=> x \in rooms
  BY <1>5
<1> QED BY <1>1, <1>4, <1>6, <1>7, <1>8, <1>9

\* The anchor of a conversation reaches who sees it.
LEMMA AnchorReaches ==
  ASSUME RowsOK, NEW r, MaySearch(Caller(r), Do(r)), NEW c \in DOMAIN db.room,
         NEW u, NEW w, u = Caller(r).user, w = Space(r), w # None => db.room[c].space = w
  PROVE  Reaches(r, ConversationAccessAnchor(c)) <=> ConversationVisible(c, u)
<1>0. PICK s, policy : s = db.room[c].space /\ policy = db.room[c].policy
  OBVIOUS
<1>1. /\ policy \in {"members", "workspace"}
      /\ policy = "members" => (ConversationVisible(c, u) <=> <<c, u>> \in db.seat)
      /\ policy = "workspace" => (ConversationVisible(c, u) <=> s # None /\ IsActive(s, u))
  BY <1>0, WhoSees
<1>2. CASE policy = "workspace" /\ s # None
  <2>1. ConversationAccessAnchor(c) = <<"workspace", s>>
    BY <1>0, <1>2 DEF ConversationAccessAnchor
  <2>2. Reaches(r, <<"workspace", s>>) <=> IsActive(s, u) /\ (w # None => s = w)
    BY WhoReaches
  <2>3. w # None => s = w
    BY <1>0
  <2> QED BY <1>1, <1>2, <2>1, <2>2, <2>3
<1>3. CASE ~(policy = "workspace" /\ s # None)
  <2>1. ConversationAccessAnchor(c) = <<"conversation", c>>
    BY <1>0, <1>3 DEF ConversationAccessAnchor
  <2>2. Reaches(r, <<"conversation", c>>) <=> c \in MemberConversations(u, w)
    BY WhoReaches
  <2>3. c \in MemberConversations(u, w) <=> <<c, u>> \in db.seat /\ policy = "members"
    BY <1>0 DEF MemberConversations, IsConversationParticipant
  <2>4. policy = "members" \/ (policy = "workspace" /\ ~ConversationVisible(c, u))
    BY <1>1, <1>3
  <2> QED BY <1>1, <2>1, <2>2, <2>3, <2>4
<1> QED BY <1>2, <1>3

LEMMA SeenHydrates ==
  ASSUME RowsOK, NEW r, MaySearch(Caller(r), Do(r)), NEW c \in DOMAIN db.room,
         Space(r) # None => db.room[c].space = Space(r), ConversationVisible(c, Caller(r).user)
  PROVE  RoomVisible(c, Caller(r).user, AllowGlobal(Caller(r)))
<1>1. db.room[c].space = None => AllowGlobal(Caller(r))
  BY MayAsk
<1> QED BY <1>1 DEF ConversationVisible, RoomVisible, WorkspaceVisible, GetConversation

-----------------------------------------------------------------------------
(***************************************************************************)
(* Kind by kind: a resource has a document that is found exactly when it   *)
(* is wanted, and each of its documents that is found will be a hit.       *)
(***************************************************************************)

LEMMA PlaceIs ==
  ASSUME NEW r, NEW s, NEW c, NEW w, w = Space(r), NEW room, room = Do(r).room
  PROVE  InPlace(r, s, c) <=> (w # None => s = w) /\ (room # None => room = c)
BY DEF InPlace, Space

LEMMA DocHas ==
  ASSUME NEW kind, NEW id, NEW p, NEW s, NEW c, NEW d, d = Doc(kind, id, p, s, c)
  PROVE  d.kind = kind /\ d.id = id /\ d.principal = p /\ d.space = s /\ d.room = c
BY DEF Doc

\* In place, the anchor of a conversation reaches who sees it, and it is
\* still seen when a candidate is checked.
LEMMA SeenInPlace ==
  ASSUME RowsOK, NEW r, MaySearch(Caller(r), Do(r)), NEW c \in DOMAIN db.room,
         NEW s, s = db.room[c].space, NEW o, InPlace(r, s, o)
  PROVE  /\ Reaches(r, ConversationAccessAnchor(c)) <=> ConversationVisible(c, Caller(r).user)
         /\ ConversationVisible(c, Caller(r).user) => RoomVisible(c, Caller(r).user, AllowGlobal(Caller(r)))
<1>1. PICK u, w, room : u = Caller(r).user /\ w = Space(r) /\ room = Do(r).room
  OBVIOUS
<1>2. w # None => s = w
  BY <1>1, PlaceIs
<1>3. Reaches(r, ConversationAccessAnchor(c)) <=> ConversationVisible(c, u)
  BY <1>1, <1>2, AnchorReaches
<1>4. ConversationVisible(c, Caller(r).user) => RoomVisible(c, Caller(r).user, AllowGlobal(Caller(r)))
  BY <1>1, <1>2, SeenHydrates
<1> QED BY <1>1, <1>3, <1>4

\* The documents of a resource say what is to be found, and hold when they
\* are checked.
DocsAgree(r, kind, id) ==
  /\ Found(r, <<kind, id>>) <=> \E d \in BuildDocumentsForResource(kind, id) : Matching(r, d)
  /\ \A d \in BuildDocumentsForResource(kind, id) : d.kind = kind /\ d.id = id
       /\ (Matching(r, d) => HydrateCandidate(Caller(r), d))

LEMMA MessagesAgree ==
  ASSUME RowsOK, NEW r, MaySearch(Caller(r), Do(r)), NEW id \in DOMAIN db.message
  PROVE  DocsAgree(r, "message", id)
<1>1. PICK c, s, u, anchor : /\ c = db.message[id].room /\ s = db.room[c].space /\ u = Caller(r).user
                             /\ anchor = ConversationAccessAnchor(c)
  OBVIOUS
<1>2. c \in DOMAIN db.room
  BY <1>1 DEF RowsOK, References
<1>3. BuildDocumentsForResource("message", id) = BuildMessageDocuments(id)
  BY DEF BuildDocumentsForResource, Table
<1>4. PICK x : x = <<"message", id>>
  OBVIOUS
<1>5. x[1] = "message" /\ x[2] = id
  BY <1>4
<1>6. Found(r, x) <=> ~db.message[id].deleted /\ ConversationVisible(c, u) /\ InPlace(r, s, c)
  BY <1>1, <1>5 DEF Found
<1>7. CASE db.message[id].deleted
  <2>1. BuildDocumentsForResource("message", id) = {}
    BY <1>3, <1>7 DEF BuildMessageDocuments
  <2> QED BY <1>4, <1>6, <1>7, <2>1 DEF DocsAgree
<1>8. CASE ~db.message[id].deleted
  <2>1. PICK d : d = Doc("message", id, anchor, s, c)
    OBVIOUS
  <2>2. BuildDocumentsForResource("message", id) = {d}
    BY <1>1, <1>3, <1>8, <2>1 DEF BuildMessageDocuments
  <2>3. d.kind = "message" /\ d.id = id /\ d.principal = anchor /\ d.space = s /\ d.room = c
    BY <2>1, DocHas
  <2>4. Matching(r, d) <=> Reaches(r, anchor) /\ InPlace(r, s, c)
    BY <2>3 DEF Matching
  <2>5. InPlace(r, s, c) => (Reaches(r, anchor) <=> ConversationVisible(c, u))
          /\ (ConversationVisible(c, u) => RoomVisible(c, u, AllowGlobal(Caller(r))))
    BY <1>1, <1>2, SeenInPlace
  <2>6. Found(r, x) <=> Matching(r, d)
    BY <1>6, <1>8, <2>4, <2>5
  <2>7. Matching(r, d) => HydrateCandidate(Caller(r), d)
    <3>1. HydrateCandidate(Caller(r), d) <=> HydrateMessage(Caller(r), d)
      BY <2>3 DEF HydrateCandidate
    <3>2. RoomVisible(c, u, AllowGlobal(Caller(r))) => HydrateMessage(Caller(r), d)
      BY <1>1, <1>8, <2>3 DEF HydrateMessage
    <3> QED BY <2>4, <2>5, <3>1, <3>2
  <2> QED BY <1>4, <2>2, <2>3, <2>6, <2>7 DEF DocsAgree
<1> QED BY <1>7, <1>8

LEMMA ConversationsAgree ==
  ASSUME RowsOK, NEW r, MaySearch(Caller(r), Do(r)), NEW id \in DOMAIN db.room
  PROVE  DocsAgree(r, "conversation", id)
<1>1. PICK s, u, anchor : s = db.room[id].space /\ u = Caller(r).user /\ anchor = ConversationAccessAnchor(id)
  OBVIOUS
<1>2. BuildDocumentsForResource("conversation", id) = BuildConversationDocuments(id)
  BY DEF BuildDocumentsForResource, Table
<1>3. PICK x : x = <<"conversation", id>>
  OBVIOUS
<1>4. x[1] = "conversation" /\ x[2] = id
  BY <1>3
<1>5. Found(r, x) <=> ConversationVisible(id, u) /\ InPlace(r, s, id)
  BY <1>1, <1>4 DEF Found
<1>6. PICK d : d = Doc("conversation", id, anchor, s, id)
  OBVIOUS
<1>7. BuildDocumentsForResource("conversation", id) = {d}
  BY <1>1, <1>2, <1>6 DEF BuildConversationDocuments
<1>8. d.kind = "conversation" /\ d.id = id /\ d.principal = anchor /\ d.space = s /\ d.room = id
  BY <1>6, DocHas
<1>9. Matching(r, d) <=> Reaches(r, anchor) /\ InPlace(r, s, id)
  BY <1>8 DEF Matching
<1>10. InPlace(r, s, id) => (Reaches(r, anchor) <=> ConversationVisible(id, u))
         /\ (ConversationVisible(id, u) => RoomVisible(id, u, AllowGlobal(Caller(r))))
  BY <1>1, SeenInPlace
<1>11. Found(r, x) <=> Matching(r, d)
  BY <1>5, <1>9, <1>10
<1>12. Matching(r, d) => HydrateCandidate(Caller(r), d)
  <2>1. HydrateCandidate(Caller(r), d) <=> RoomVisible(id, u, AllowGlobal(Caller(r)))
    BY <1>1, <1>8 DEF HydrateCandidate, HydrateConversation
  <2> QED BY <1>9, <1>10, <2>1
<1> QED BY <1>3, <1>7, <1>8, <1>11, <1>12 DEF DocsAgree

LEMMA WorkspacesAgree ==
  ASSUME RowsOK, NEW r, MaySearch(Caller(r), Do(r)), NEW id \in DOMAIN db.space
  PROVE  DocsAgree(r, "workspace", id)
<1>1. PICK u, w, room : u = Caller(r).user /\ w = Space(r) /\ room = Do(r).room
  OBVIOUS
<1>2. BuildDocumentsForResource("workspace", id) = BuildWorkspaceDocuments(id)
  BY DEF BuildDocumentsForResource, Table
<1>3. PICK x : x = <<"workspace", id>>
  OBVIOUS
<1>4. x[1] = "workspace" /\ x[2] = id
  BY <1>3
<1>5. Found(r, x) <=> IsActive(id, u) /\ InPlace(r, id, None)
  BY <1>1, <1>4 DEF Found
<1>6. PICK d : d = Doc("workspace", id, x, id, None)
  OBVIOUS
<1>7. BuildDocumentsForResource("workspace", id) = {d}
  BY <1>2, <1>3, <1>6 DEF BuildWorkspaceDocuments
<1>8. d.kind = "workspace" /\ d.id = id /\ d.principal = x /\ d.space = id /\ d.room = None
  BY <1>6, DocHas
<1>9. Matching(r, d) <=> Reaches(r, x) /\ InPlace(r, id, None)
  BY <1>8 DEF Matching
<1>10. Reaches(r, x) <=> IsActive(id, u) /\ (w # None => id = w)
  BY <1>1, <1>3, WhoReaches
<1>11. InPlace(r, id, None) => (w # None => id = w)
  BY <1>1, PlaceIs
<1>12. Found(r, x) <=> Matching(r, d)
  BY <1>5, <1>9, <1>10, <1>11
<1>13. Matching(r, d) => HydrateCandidate(Caller(r), d)
  <2>1. HydrateCandidate(Caller(r), d) <=> IsActive(id, u)
    BY <1>1, <1>8 DEF HydrateCandidate, HydrateWorkspace, WorkspaceVisible
  <2> QED BY <1>9, <1>10, <2>1
<1> QED BY <1>3, <1>7, <1>8, <1>12, <1>13 DEF DocsAgree

LEMMA UsersAgree ==
  ASSUME RowsOK, NEW r, MaySearch(Caller(r), Do(r)), NEW id \in DOMAIN db.user
  PROVE  DocsAgree(r, "user", id)
<1>1. PICK u, w, room : u = Caller(r).user /\ w = Space(r) /\ room = Do(r).room
  OBVIOUS
<1>2. BuildDocumentsForResource("user", id) = BuildUserDocuments(id)
  BY DEF BuildDocumentsForResource, Table
<1>3. PICK x : x = <<"user", id>>
  OBVIOUS
<1>4. x[1] = "user" /\ x[2] = id
  BY <1>3
<1>5. Found(r, x) <=> GetUser(id).status = "active" /\
        (\/ id = u /\ InPlace(r, None, None)
         \/ \E v \in DOMAIN db.space : IsActive(v, u) /\ IsActive(v, id) /\ InPlace(r, v, None)
         \/ \E c \in DOMAIN db.room : /\ db.room[c].policy = "members" /\ ConversationVisible(c, u)
                                      /\ InPlace(r, db.room[c].space, c) /\ <<c, id>> \in db.seat)
  BY <1>1, <1>4 DEF Found, IsConversationParticipant
<1>6. CASE GetUser(id).status # "active"
  <2>1. BuildDocumentsForResource("user", id) = {}
    BY <1>2, <1>6 DEF BuildUserDocuments
  <2> QED BY <1>3, <1>5, <1>6, <2>1 DEF DocsAgree
<1>7. CASE GetUser(id).status = "active"
  <2>1. PICK own : own = Doc("user", id, x, None, None)
    OBVIOUS
  <2> DEFINE OfSpace(v) == Doc("user", id, <<"workspace", v>>, v, None)
             OfRoom(c) == Doc("user", id, <<"conversation", c>>, db.room[c].space, c)
             Rooms == {c \in DOMAIN db.room : <<c, id>> \in db.seat /\ db.room[c].policy = "members"}
  <2>2. ActiveWorkspaceAnchors(id) = {v \in DOMAIN db.space : IsActive(v, id)}
    BY DEF ActiveWorkspaceAnchors
  <2>3. MemberConversations(id, None) = Rooms
    BY DEF MemberConversations, IsConversationParticipant
  <2>4. PICK docs : docs = BuildDocumentsForResource("user", id)
    OBVIOUS
  <2>5. \A d : d \in docs <=> \/ d = own
                              \/ \E v \in DOMAIN db.space : IsActive(v, id) /\ d = OfSpace(v)
                              \/ \E c \in Rooms : d = OfRoom(c)
    <3>1. docs = {own} \cup {OfSpace(v) : v \in ActiveWorkspaceAnchors(id)}
                       \cup {OfRoom(c) : c \in MemberConversations(id, None)}
      BY <1>2, <1>3, <1>7, <2>1, <2>4 DEF BuildUserDocuments
    <3> HIDE DEF OfSpace, OfRoom, Rooms
    <3> QED BY <2>2, <2>3, <3>1
  <2>6. /\ own.kind = "user" /\ own.id = id
        /\ Matching(r, own) <=> id = u /\ InPlace(r, None, None)
        /\ Matching(r, own) => HydrateCandidate(Caller(r), own)
    <3>1. own.kind = "user" /\ own.id = id /\ own.principal = x /\ own.space = None /\ own.room = None
      BY <2>1, DocHas
    <3>2. Matching(r, own) <=> Reaches(r, x) /\ InPlace(r, None, None)
      BY <3>1 DEF Matching
    <3>3. Reaches(r, x) <=> w = None /\ id = u
      BY <1>1, <1>3, WhoReaches
    <3>4. InPlace(r, None, None) => w = None
      BY <1>1, PlaceIs
    <3>5. id = u => HydrateCandidate(Caller(r), own)
      BY <1>1, <3>1 DEF HydrateCandidate, HydrateUser, UserVisible
    <3> QED BY <3>1, <3>2, <3>3, <3>4, <3>5
  <2>7. ASSUME NEW v \in DOMAIN db.space, IsActive(v, id), NEW d, d = OfSpace(v)
        PROVE  /\ d.kind = "user" /\ d.id = id
               /\ Matching(r, d) <=> IsActive(v, u) /\ InPlace(r, v, None)
               /\ Matching(r, d) => HydrateCandidate(Caller(r), d)
    <3>1. PICK p : p = <<"workspace", v>>
      OBVIOUS
    <3>2. d.kind = "user" /\ d.id = id /\ d.principal = p /\ d.space = v /\ d.room = None
      BY <2>7, <3>1, DocHas
    <3>3. Matching(r, d) <=> Reaches(r, p) /\ InPlace(r, v, None)
      BY <3>2 DEF Matching
    <3>4. Reaches(r, p) <=> IsActive(v, u) /\ (w # None => v = w)
      BY <1>1, <3>1, WhoReaches
    <3>5. InPlace(r, v, None) => (w # None => v = w)
      BY <1>1, PlaceIs
    <3>6. v # None
      BY DEF RowsOK, Coherent
    <3>7. IsActive(v, u) => HydrateCandidate(Caller(r), d)
      BY <1>1, <2>7, <3>2, <3>6 DEF HydrateCandidate, HydrateUser, UserVisible
    <3> QED BY <3>2, <3>3, <3>4, <3>5, <3>7
  <2>8. ASSUME NEW c \in Rooms, NEW d, d = OfRoom(c)
        PROVE  /\ d.kind = "user" /\ d.id = id
               /\ Matching(r, d) <=> ConversationVisible(c, u) /\ InPlace(r, db.room[c].space, c)
               /\ Matching(r, d) => HydrateCandidate(Caller(r), d)
    <3>1. PICK p, s, policy : p = <<"conversation", c>> /\ s = db.room[c].space /\ policy = db.room[c].policy
      OBVIOUS
    <3>2. d.kind = "user" /\ d.id = id /\ d.principal = p /\ d.space = s /\ d.room = c
      BY <2>8, <3>1, DocHas
    <3>3. Matching(r, d) <=> Reaches(r, p) /\ InPlace(r, s, c)
      BY <3>2 DEF Matching
    <3>4. Reaches(r, p) <=> c \in MemberConversations(u, w)
      BY <1>1, <3>1, WhoReaches
    <3>5. policy = "members" /\ <<c, id>> \in db.seat /\ c \in DOMAIN db.room
      BY <2>8, <3>1
    <3>6. c \in MemberConversations(u, w) <=> <<c, u>> \in db.seat /\ (w # None => s = w)
      BY <3>1, <3>5 DEF MemberConversations, IsConversationParticipant
    <3>7. InPlace(r, s, c) => (w # None => s = w)
      BY <1>1, PlaceIs
    <3>8. ConversationVisible(c, u) <=> <<c, u>> \in db.seat
      BY <3>1, <3>5, WhoSees
    <3>9. c # None
      BY <3>5 DEF RowsOK, Coherent
    <3>10. <<c, u>> \in db.seat => HydrateCandidate(Caller(r), d)
      BY <1>1, <3>2, <3>5, <3>9 DEF HydrateCandidate, HydrateUser, UserVisible
    <3> QED BY <3>1, <3>2, <3>3, <3>4, <3>6, <3>7, <3>8, <3>10
  <2> HIDE DEF OfSpace, OfRoom
  <2>9. \A d \in docs : d.kind = "user" /\ d.id = id /\ (Matching(r, d) => HydrateCandidate(Caller(r), d))
    BY <2>5, <2>6, <2>7, <2>8
  <2>10. (\E d \in docs : Matching(r, d)) <=>
           (\/ id = u /\ InPlace(r, None, None)
            \/ \E v \in DOMAIN db.space : IsActive(v, u) /\ IsActive(v, id) /\ InPlace(r, v, None)
            \/ \E c \in Rooms : ConversationVisible(c, u) /\ InPlace(r, db.room[c].space, c))
    <3>1. (\E d \in docs : Matching(r, d)) <=>
            (\/ Matching(r, own)
             \/ \E v \in DOMAIN db.space : IsActive(v, id) /\ Matching(r, OfSpace(v))
             \/ \E c \in Rooms : Matching(r, OfRoom(c)))
      BY <2>5
    <3>2. \A v \in DOMAIN db.space : IsActive(v, id) =>
            (Matching(r, OfSpace(v)) <=> IsActive(v, u) /\ InPlace(r, v, None))
      BY <2>7
    <3>3. \A c \in Rooms : Matching(r, OfRoom(c)) <=> ConversationVisible(c, u) /\ InPlace(r, db.room[c].space, c)
      BY <2>8
    <3> HIDE DEF Rooms
    <3> QED BY <2>6, <3>1, <3>2, <3>3
  <2>11. Found(r, x) <=> \E d \in docs : Matching(r, d)
    BY <1>5, <1>7, <2>10
  <2> QED BY <1>3, <2>4, <2>9, <2>11 DEF DocsAgree
<1> QED BY <1>6, <1>7

\* A feed by which a search finds an event.
FeedFinds(r, f) ==
  \/ f = <<"user", Caller(r).user>> /\ InPlace(r, None, None)
  \/ f[1] = "workspace" /\ IsActive(f[2], Caller(r).user) /\ InPlace(r, f[2], None)
  \/ /\ f[1] = "conversation" /\ ConversationVisible(f[2], Caller(r).user)
     /\ InPlace(r, db.room[f[2]].space, f[2])
     /\ Do(r).room # None => db.room[f[2]].policy = "members"

LEMMA FeedAgrees ==
  ASSUME RowsOK, NEW r, MaySearch(Caller(r), Do(r)), NEW id \in DOMAIN db.event, NEW f \in db.event[id].feeds,
         NEW d, d = EventAnchor(id, f)
  PROVE  /\ d.kind = "event" /\ d.id = id
         /\ Matching(r, d) <=> FeedFinds(r, f)
         /\ Matching(r, d) => HydrateCandidate(Caller(r), d)
<1>0. PICK u, w : u = Caller(r).user /\ w = Space(r)
  OBVIOUS
<1>1. PICK room, name : u = Caller(r).user /\ w = Space(r) /\ room = Do(r).room /\ name = f[2]
  BY <1>0
<1>2. f = <<f[1], name>> /\ f[1] \in {"user", "workspace", "conversation"}
  BY <1>1 DEF RowsOK, Coherent, EventsFit, FeedFits
<1>3. d.kind = "event" => (HydrateCandidate(Caller(r), d) <=> ExternalEventVisible(d.id, u))
  BY <1>1 DEF HydrateCandidate, HydrateEvent
<1>4. CASE f[1] = "user"
  <2>1. f = <<"user", name>>
    BY <1>2, <1>4
  <2>2. d = Doc("event", id, f, None, None)
    BY <1>4 DEF EventAnchor
  <2>3. d.kind = "event" /\ d.id = id /\ d.principal = f /\ d.space = None /\ d.room = None
    BY <2>2, DocHas
  <2>4. Matching(r, d) <=> Reaches(r, f) /\ InPlace(r, None, None)
    BY <2>3 DEF Matching
  <2>5. Reaches(r, f) <=> w = None /\ name = u
    <3>1. PICK p : p = <<"user", name>>
      OBVIOUS
    <3>2. Reaches(r, p) <=> w = None /\ name = u
      BY <1>0, <3>1, WhoReaches
    <3> QED BY <2>1, <3>1, <3>2
  <2>6. InPlace(r, None, None) => w = None
    BY <1>1, PlaceIs
  <2>7. f = <<"user", u>> <=> name = u
    BY <2>1
  <2>8. FeedFinds(r, f) <=> name = u /\ InPlace(r, None, None)
    BY <1>1, <1>4, <2>7 DEF FeedFinds
  <2>9. name = u => ExternalEventVisible(id, u)
    BY <2>7 DEF ExternalEventVisible
  <2> QED BY <1>3, <2>3, <2>4, <2>5, <2>6, <2>8, <2>9
<1>5. CASE f[1] = "workspace"
  <2>1. f = <<"workspace", name>>
    BY <1>2, <1>5
  <2>2. d = Doc("event", id, f, name, None)
    BY <1>1, <1>5 DEF EventAnchor
  <2>3. d.kind = "event" /\ d.id = id /\ d.principal = f /\ d.space = name /\ d.room = None
    BY <2>2, DocHas
  <2>4. Matching(r, d) <=> Reaches(r, f) /\ InPlace(r, name, None)
    BY <2>3 DEF Matching
  <2>5. Reaches(r, f) <=> IsActive(name, u) /\ (w # None => name = w)
    <3>1. PICK p : p = <<"workspace", name>>
      OBVIOUS
    <3>2. Reaches(r, p) <=> IsActive(name, u) /\ (w # None => name = w)
      BY <1>0, <3>1, WhoReaches
    <3> QED BY <2>1, <3>1, <3>2
  <2>6. InPlace(r, name, None) => (w # None => name = w)
    BY <1>1, PlaceIs
  <2>7. f # <<"user", u>>
    BY <2>1
  <2>8. FeedFinds(r, f) <=> IsActive(name, u) /\ InPlace(r, name, None)
    BY <1>1, <1>5, <2>7 DEF FeedFinds
  <2>9. IsActive(name, u) => ExternalEventVisible(id, u)
    BY <1>1, <1>5 DEF ExternalEventVisible
  <2> QED BY <1>3, <2>3, <2>4, <2>5, <2>6, <2>8, <2>9
<1>6. CASE f[1] = "conversation"
  <2>1. f = <<"conversation", name>>
    BY <1>2, <1>6
  <2>2. name \in DOMAIN db.room
    BY <1>1, <1>6 DEF RowsOK, EventsFit, FeedFits
  <2>3. PICK s, policy, a, o : /\ s = db.room[name].space /\ policy = db.room[name].policy
                               /\ a = ConversationAccessAnchor(name) /\ o = IF a = f THEN name ELSE None
    OBVIOUS
  <2>4. d = Doc("event", id, a, s, o)
    BY <1>1, <1>6, <2>3 DEF EventAnchor
  <2>5. d.kind = "event" /\ d.id = id /\ d.principal = a /\ d.space = s /\ d.room = o
    BY <2>4, DocHas
  <2>6. Matching(r, d) <=> Reaches(r, a) /\ InPlace(r, s, o)
    BY <2>5 DEF Matching
  <2>7. InPlace(r, s, o) => (Reaches(r, a) <=> ConversationVisible(name, u))
    BY <1>1, <2>2, <2>3, SeenInPlace
  <2>8. InPlace(r, s, name) => (Reaches(r, a) <=> ConversationVisible(name, u))
    BY <1>1, <2>2, <2>3, SeenInPlace
  <2>9. ConversationVisible(name, u) => (a = f <=> policy = "members")
    <3>1. policy \in {"members", "workspace"}
          /\ (policy = "workspace" => (ConversationVisible(name, u) <=> s # None /\ IsActive(s, u)))
      BY <2>2, <2>3, WhoSees
    <3>2. a = IF policy = "workspace" /\ s # None THEN <<"workspace", s>> ELSE <<"conversation", name>>
      BY <2>3 DEF ConversationAccessAnchor
    <3>3. <<"workspace", s>> # f
      BY <2>1
    <3> QED BY <2>1, <3>1, <3>2, <3>3
  <2>10. InPlace(r, s, o) <=> (w # None => s = w) /\ (room # None => room = o)
    BY <1>1, PlaceIs
  <2>11. InPlace(r, s, name) <=> (w # None => s = w) /\ (room # None => room = name)
    BY <1>1, PlaceIs
  <2>12. f # <<"user", u>>
    BY <2>1
  <2>13. FeedFinds(r, f) <=> /\ ConversationVisible(name, u) /\ InPlace(r, s, name)
                             /\ room # None => policy = "members"
    BY <1>1, <1>6, <2>3, <2>12 DEF FeedFinds
  <2>14. ConversationVisible(name, u) =>
           (InPlace(r, s, o) <=> InPlace(r, s, name) /\ (room # None => policy = "members"))
    BY <2>3, <2>9, <2>10, <2>11
  <2>15. Matching(r, d) <=> FeedFinds(r, f)
    BY <2>6, <2>7, <2>8, <2>13, <2>14
  <2>16. ConversationVisible(name, u) => ExternalEventVisible(id, u)
    BY <1>1, <1>6 DEF ExternalEventVisible
  <2> QED BY <1>3, <2>5, <2>13, <2>15, <2>16
<1> QED BY <1>2, <1>4, <1>5, <1>6

LEMMA EventsAgree ==
  ASSUME RowsOK, NEW r, MaySearch(Caller(r), Do(r)), NEW id \in DOMAIN db.event
  PROVE  DocsAgree(r, "event", id)
<1>1. BuildDocumentsForResource("event", id) = {EventAnchor(id, f) : f \in db.event[id].feeds}
  BY DEF BuildDocumentsForResource, Table, BuildEventDocuments
<1>2. PICK x : x = <<"event", id>>
  OBVIOUS
<1>3. x[1] = "event" /\ x[2] = id
  BY <1>2
<1>4. Found(r, x) <=> \E f \in db.event[id].feeds : FeedFinds(r, f)
  BY <1>3 DEF Found, FeedFinds
<1>5. PICK docs : docs = BuildDocumentsForResource("event", id)
  OBVIOUS
<1>6. \A d \in docs : \E f \in db.event[id].feeds : d = EventAnchor(id, f)
  BY <1>1, <1>5
<1>7. \A f \in db.event[id].feeds : \E d \in docs : d = EventAnchor(id, f)
  BY <1>1, <1>5
<1>8. \A d \in docs : d.kind = "event" /\ d.id = id /\ (Matching(r, d) => HydrateCandidate(Caller(r), d))
  BY <1>6, FeedAgrees
<1>9. Found(r, x) <=> \E d \in docs : Matching(r, d)
  BY <1>4, <1>6, <1>7, FeedAgrees
<1> QED BY <1>2, <1>5, <1>8, <1>9 DEF DocsAgree

-----------------------------------------------------------------------------
(***************************************************************************)
(* All kinds: what a query finds.                                          *)
(***************************************************************************)

LEMMA AllAgree ==
  ASSUME RowsOK, NEW r, MaySearch(Caller(r), Do(r)), NEW kind \in DOMAIN Table, NEW id \in DOMAIN db[Table[kind]]
  PROVE  DocsAgree(r, kind, id)
<1>1. kind \in {"message", "conversation", "workspace", "user", "event"}
  BY DEF Table
<1>2. CASE kind = "message"
  BY <1>2, MessagesAgree DEF Table
<1>3. CASE kind = "conversation"
  BY <1>3, ConversationsAgree DEF Table
<1>4. CASE kind = "workspace"
  BY <1>4, WorkspacesAgree DEF Table
<1>5. CASE kind = "user"
  BY <1>5, UsersAgree DEF Table
<1>6. CASE kind = "event"
  BY <1>6, EventsAgree DEF Table
<1> QED BY <1>1, <1>2, <1>3, <1>4, <1>5, <1>6

LEMMA ResourcesAre ==
  ASSUME NEW x
  PROVE  x \in Resources <=> \E kind \in DOMAIN Table : \E id \in DOMAIN db[Table[kind]] : x = <<kind, id>>
BY DEF Resources, Things

LEMMA FreshIs ==
  ASSUME NEW d
  PROVE  d \in FreshIndex <=>
           \E kind \in DOMAIN Table : \E id \in DOMAIN db[Table[kind]] : d \in BuildDocumentsForResource(kind, id)
<1>1. d \in FreshIndex <=> \E x \in Resources : d \in BuildDocumentsForResource(x[1], x[2])
  BY DEF FreshIndex
<1>2. ASSUME NEW x \in Resources, d \in BuildDocumentsForResource(x[1], x[2])
      PROVE  \E kind \in DOMAIN Table : \E id \in DOMAIN db[Table[kind]] : d \in BuildDocumentsForResource(kind, id)
  <2>1. PICK kind \in DOMAIN Table : \E id \in DOMAIN db[Table[kind]] : x = <<kind, id>>
    BY ResourcesAre
  <2>2. PICK id \in DOMAIN db[Table[kind]] : x = <<kind, id>>
    BY <2>1
  <2>3. x[1] = kind /\ x[2] = id
    BY <2>2
  <2> QED BY <1>2, <2>3
<1>3. ASSUME NEW kind \in DOMAIN Table, NEW id \in DOMAIN db[Table[kind]], d \in BuildDocumentsForResource(kind, id)
      PROVE  \E x \in Resources : d \in BuildDocumentsForResource(x[1], x[2])
  <2>1. PICK x : x = <<kind, id>>
    OBVIOUS
  <2>2. x[1] = kind /\ x[2] = id /\ x \in Resources
    BY <2>1, ResourcesAre
  <2> QED BY <1>3, <2>2
<1> QED BY <1>1, <1>2, <1>3

LEMMA KeysAre ==
  ASSUME NEW docs, NEW x
  PROVE  x \in Keys(docs) <=> \E d \in docs : x = <<d.kind, d.id>>
BY DEF Keys

\* The candidates of a query are what is wanted and has not been shown, and
\* each of them will be a hit.
LEMMA FilterFinds ==
  ASSUME RowsOK, index = FreshIndex, NEW r, MaySearch(Caller(r), Do(r)), Got(r).space = Space(r),
         NEW P, P = Principals(r),
         NEW found, found = BuildSearchFilter(r, P)
  PROVE  /\ Keys(found) = Wanted(r) \ Got(r).shown
         /\ \A d \in found : HydrateCandidate(Caller(r), d)
<1> DEFINE Kind(k) == Do(r).kinds = {} \/ k \in Do(r).kinds
<1>1. PICK w, room, shown : w = Space(r) /\ room = Do(r).room /\ shown = Got(r).shown
  OBVIOUS
<1>2. ASSUME NEW d
      PROVE  d \in found <=> d \in index /\ Matching(r, d) /\ Kind(d.kind) /\ <<d.kind, d.id>> \notin shown
  <2>1. PICK p, s, c : p = d.principal /\ s = d.space /\ c = d.room
    OBVIOUS
  <2>2. p \in P <=> Reaches(r, p)
    BY DEF Reaches
  <2>3. InPlace(r, s, c) <=> (w # None => s = w) /\ (room # None => room = c)
    BY <1>1, PlaceIs
  <2>4. d \in found <=> /\ d \in index /\ p \in P /\ Kind(d.kind) /\ (w # None => s = w) /\ (room # None => c = room)
                        /\ <<d.kind, d.id>> \notin shown
    BY <1>1, <2>1 DEF BuildSearchFilter
  <2>5. Matching(r, d) <=> Reaches(r, p) /\ InPlace(r, s, c)
    BY <2>1 DEF Matching
  <2> HIDE DEF Kind
  <2> QED BY <2>2, <2>3, <2>4, <2>5
<1>3. \A x : x \in Wanted(r) <=> x \in Resources /\ Kind(x[1]) /\ Found(r, x)
  BY DEF Wanted
<1> HIDE DEF Kind
<1>4. ASSUME NEW d \in found
      PROVE  <<d.kind, d.id>> \in Wanted(r) \ shown /\ HydrateCandidate(Caller(r), d)
  <2>1. d \in FreshIndex /\ Matching(r, d) /\ Kind(d.kind) /\ <<d.kind, d.id>> \notin shown
    BY <1>2
  <2>2. PICK kind \in DOMAIN Table : \E id \in DOMAIN db[Table[kind]] : d \in BuildDocumentsForResource(kind, id)
    BY <2>1, FreshIs
  <2>3. PICK id \in DOMAIN db[Table[kind]] : d \in BuildDocumentsForResource(kind, id)
    BY <2>2
  <2>4. DocsAgree(r, kind, id)
    BY AllAgree
  <2>5. PICK x : x = <<kind, id>>
    OBVIOUS
  <2>6. d.kind = kind /\ d.id = id /\ HydrateCandidate(Caller(r), d) /\ Found(r, x)
    BY <2>1, <2>3, <2>4, <2>5 DEF DocsAgree
  <2>7. x[1] = kind /\ x \in Resources /\ <<d.kind, d.id>> = x
    BY <2>5, <2>6, ResourcesAre
  <2>8. Kind(x[1])
    BY <2>1, <2>6, <2>7
  <2>9. x \in Wanted(r)
    BY <1>3, <2>6, <2>7, <2>8
  <2> QED BY <2>1, <2>6, <2>7, <2>9
<1>5. ASSUME NEW x \in Wanted(r) \ shown
      PROVE  \E d \in found : x = <<d.kind, d.id>>
  <2>1. x \in Resources /\ Kind(x[1]) /\ Found(r, x)
    BY <1>3
  <2>2. PICK kind \in DOMAIN Table : \E id \in DOMAIN db[Table[kind]] : x = <<kind, id>>
    BY <2>1, ResourcesAre
  <2>3. PICK id \in DOMAIN db[Table[kind]] : x = <<kind, id>>
    BY <2>2
  <2>4. DocsAgree(r, kind, id)
    BY AllAgree
  <2>5. PICK d \in BuildDocumentsForResource(kind, id) : Matching(r, d)
    BY <2>1, <2>3, <2>4 DEF DocsAgree
  <2>6. d.kind = kind /\ d.id = id
    BY <2>4, <2>5 DEF DocsAgree
  <2>7. x[1] = kind /\ x = <<d.kind, d.id>>
    BY <2>3, <2>6
  <2>8. d \in index
    BY <2>5, FreshIs
  <2>9. Kind(d.kind) /\ <<d.kind, d.id>> \notin shown
    BY <2>1, <2>6, <2>7
  <2> QED BY <1>2, <2>5, <2>7, <2>8, <2>9
<1>6. \A x : x \in Keys(found) <=> x \in Wanted(r) \ shown
  BY <1>4, <1>5, KeysAre
<1>7. Keys(found) = Wanted(r) \ shown
  BY <1>6
<1> QED BY <1>1, <1>4, <1>7

LEMMA PairsFinite ==
  ASSUME NEW S, IsFiniteSet(S), NEW kind
  PROVE  IsFiniteSet(Things(kind, S))
<1>1. PICK T : T = {<<kind, y>> : y \in S}
  OBVIOUS
<1>2. PICK f : f = [y \in S |-> <<kind, y>>]
  OBVIOUS
<1>3. f \in [S -> T] /\ \A t \in T : \E y \in S : f[y] = t
  BY <1>1, <1>2
<1>4. f \in Surjection(S, T)
  BY <1>3 DEF Surjection
<1>5. IsFiniteSet(T)
  BY <1>4, FS_Surjection
<1> QED BY <1>1, <1>5 DEF Things

LEMMA ResourcesFinite ==
  ASSUME Coherent(db), TimesApart(db)
  PROVE  IsFiniteSet(Resources)
<1>1. PICK A, B, C, D, E : /\ A = Things("message", DOMAIN db.message) /\ B = Things("conversation", DOMAIN db.room)
        /\ C = Things("workspace", DOMAIN db.space) /\ D = Things("user", DOMAIN db.user)
        /\ E = Things("event", DOMAIN db.event)
  OBVIOUS
<1>2. IsFiniteSet(A)
  BY <1>1, PairsFinite DEF TimesApart
<1>3. IsFiniteSet(B)
  BY <1>1, PairsFinite DEF Coherent
<1>4. IsFiniteSet(C)
  BY <1>1, PairsFinite DEF Coherent
<1>5. IsFiniteSet(D)
  BY <1>1, PairsFinite DEF Coherent
<1>6. IsFiniteSet(E)
  BY <1>1, PairsFinite DEF Coherent
<1>7. IsFiniteSet((A \cup B) \cup ((C \cup D) \cup E))
  BY <1>2, <1>3, <1>4, <1>5, <1>6, FS_Union
<1>8. Resources \subseteq (A \cup B) \cup ((C \cup D) \cup E)
  <2>1. SUFFICES ASSUME NEW x \in Resources PROVE x \in (A \cup B) \cup ((C \cup D) \cup E)
    OBVIOUS
  <2>2. PICK kind \in DOMAIN Table : x \in Things(kind, DOMAIN db[Table[kind]])
    BY DEF Resources
  <2>3. kind \in {"message", "conversation", "workspace", "user", "event"}
    BY DEF Table
  <2> QED BY <1>1, <2>2, <2>3 DEF Table
<1> QED BY <1>7, <1>8, FS_Subset

-----------------------------------------------------------------------------
(***************************************************************************)
(* What a step of another request leaves of a search.                      *)
(***************************************************************************)

\* While the rows do not change, nor the command and the caller of a search,
\* what it looks for stays what it is.
LEMMA SameSearch ==
  ASSUME db' = db, index' = index, NEW r, req'[r].auth = req[r].auth, req'[r].do = req[r].do
  PROVE  /\ Known(r)' <=> Known(r)
         /\ Allowed(r)' <=> Allowed(r)
         /\ Wanted(r)' = Wanted(r)
         /\ \A d : HydrateCandidate(Caller(r), d)' <=> HydrateCandidate(Caller(r), d)
         /\ Principals(r)' = Principals(r)
<1>1. Known(r)' <=> Known(r)
  BY DEF Known, Caller, Do, AuthenticateRequest, GetSessionAuth, GetAPIKeyAuth, GetAgentAPIKeyAuth, AgentMode
<1>2. MaySearch(Caller(r), Do(r))' <=> MaySearch(Caller(r), Do(r))
  BY DEF Caller, Do, MaySearch, SearchedSpace, AllowGlobal, RoomVisible, WorkspaceVisible, GetConversation,
         IsConversationParticipant, IsActive, Membership
<1>3. (Caller(r).space # None => Do(r).space # None)' <=> (Caller(r).space # None => Do(r).space # None)
  BY DEF Caller, Do
<1>4. Principals(r)' = Principals(r)
  BY DEF Principals, Space, SearchedSpace, Caller, Do, AllowGlobal, ResolveQueryPrincipals, Things,
         ListActiveWorkspacesByUser, MemberConversations, IsConversationParticipant, IsActive, Membership
<1>5. Allowed(r)' <=> Allowed(r)
  <2>1. Uncrowded(r)' <=> Uncrowded(r)
    BY <1>4 DEF Uncrowded, Sharing, NamespaceName, DocumentCorpus, Keys
  <2> QED BY <1>1, <1>2, <1>3, <2>1 DEF Allowed
<1>6. ASSUME NEW d
      PROVE  HydrateCandidate(Caller(r), d)' <=> HydrateCandidate(Caller(r), d)
  BY DEF Caller, HydrateCandidate, HydrateMessage, HydrateConversation, HydrateWorkspace, HydrateUser, HydrateEvent,
         ExternalEventVisible, UserVisible, AllowGlobal, RoomVisible, WorkspaceVisible, GetConversation,
         IsConversationParticipant, IsActive, Membership, ConversationVisible
<1>7. ASSUME NEW x
      PROVE  Found(r, x)' <=> Found(r, x)
  BY DEF Found, InPlace, SearchedSpace, Caller, Do, GetUser, IsConversationParticipant, ConversationVisible,
         GetConversation, IsActive, Membership
<1>8. Resources' = Resources
  BY DEF Resources, Things
<1>9. Wanted(r)' = Wanted(r)
  BY <1>7, <1>8 DEF Wanted, Do
<1> QED BY <1>1, <1>5, <1>4, <1>6, <1>9

LEMMA SameIndex == ASSUME db' = db PROVE FreshIndex' = FreshIndex
BY DEF FreshIndex, Resources, Things, BuildDocumentsForResource, BuildMessageDocuments, BuildConversationDocuments,
       BuildWorkspaceDocuments, BuildUserDocuments, BuildEventDocuments, EventAnchor, MemberConversations,
       ActiveWorkspaceAnchors, ConversationAccessAnchor, GetUser, IsConversationParticipant, IsActive, Membership

LEMMA SameRequest ==
  ASSUME db' = db, index' = index, NEW q, req'[q] = req[q], SearchOK(q)
  PROVE  SearchOK(q)'
<1>1. req'[q].auth = req[q].auth /\ req'[q].do = req[q].do
  OBVIOUS
<1>2. /\ Known(q)' <=> Known(q)
      /\ Allowed(q)' <=> Allowed(q)
      /\ Wanted(q)' = Wanted(q)
      /\ \A d : HydrateCandidate(Caller(q), d)' <=> HydrateCandidate(Caller(q), d)
      /\ Principals(q)' = Principals(q)
  BY <1>1, SameSearch
<1>3. HitsOK(q) => HitsOK(q)'
  BY <1>2 DEF HitsOK, StillLeft, Got, Keys, Bounded
<1>4. PageOK(q) => PageOK(q)'
  BY <1>2, <1>3 DEF PageOK, At, Got, Do
<1>5. /\ At(q, "new")' <=> At(q, "new")
      /\ At(q, "authenticate")' <=> At(q, "authenticate")
      /\ Do(q)' = Do(q) /\ Caller(q)' = Caller(q) /\ Got(q)' = Got(q)
      /\ Nothing' = Nothing /\ Searching' = Searching
  BY DEF At, Do, Caller, Got, Nothing, Searching
<1>6. (~At(q, "new") /\ Allowed(q) => PageOK(q))'
  BY <1>2, <1>4, <1>5 DEF SearchOK
<1>7. /\ (req[q].pc \in {"new", "authenticate", "search", "done"} \cup Searching)'
      /\ (req[q].pc \in {"search"} \cup Searching => Known(q))'
  BY <1>2, <1>5 DEF SearchOK
<1>8. /\ (~At(q, "new") => Do(q).op = "search")'
      /\ (~At(q, "new") /\ Caller(q) # None => Known(q))'
      /\ (At(q, "authenticate") /\ Got(q) # Nothing => Known(q))'
  BY <1>2, <1>5 DEF SearchOK
<1> QED BY <1>6, <1>7, <1>8 DEF SearchOK

-----------------------------------------------------------------------------
(***************************************************************************)
(* The steps of a search.                                                  *)
(***************************************************************************)

\* What a step of a search has to show: that the page is still right, when it
\* is of the caller it was of.
LEMMA SearchGoesOn ==
  ASSUME db' = db, index' = index, NEW r, SearchOK(r), Known(r), ~At(r, "new"),
         req'[r].auth = req[r].auth, req'[r].do = req[r].do,
         req'[r].pc \in {"authenticate", "search", "done"} \cup Searching,
         Allowed(r) => PageOK(r)'
  PROVE  SearchOK(r)'
<1>1. (Known(r)' <=> Known(r)) /\ (Allowed(r)' <=> Allowed(r))
  BY SameSearch
<1>2. Do(r).op = "search" /\ Do(r)' = Do(r)
  BY DEF SearchOK, Do
<1>3. req'[r].pc # "new"
  BY DEF Searching
<1>4. (req[r].pc \in {"new", "authenticate", "search", "done"} \cup Searching)'
  BY DEF Searching
<1>5. /\ (~At(r, "new") => Do(r).op = "search")'
      /\ (~At(r, "new") /\ Caller(r) # None => Known(r))'
      /\ (req[r].pc \in {"search"} \cup Searching => Known(r))'
      /\ (At(r, "authenticate") /\ Got(r) # Nothing => Known(r))'
  BY <1>1, <1>2
<1>6. (~At(r, "new") /\ Allowed(r) => PageOK(r))'
  BY <1>1
<1> QED BY <1>4, <1>5, <1>6 DEF SearchOK

\* The page after a step, by what the step leaves of it.
LEMMA PageMoves ==
  ASSUME db' = db, index' = index, NEW r, req'[r].auth = req[r].auth, req'[r].do = req[r].do,
         NEW pc, pc = req'[r].pc, NEW got, got = req'[r].got,
         pc \in {"authenticate", "search"} /\ got # Nothing => got.space = Do(r).space /\ got.shown \subseteq Wanted(r),
         pc \in Searching => got.shown \subseteq Wanted(r),
         pc = "candidates" => got.principals = Principals(r),
         pc = "hydrate" =>
           /\ StillLeft(r, got)
           /\ \A d \in got.found : HydrateCandidate(Caller(r), d)
           /\ got.left \in Nat /\ got.hits \in 0 .. Limit
           /\ got.all = got.hits + Cardinality(Keys(got.found))
           /\ got.left + got.hits = Bounded(got.all),
         pc = "done" => req'[r].answer = "error" \/ (req'[r].answer = "ok" /\ got.shown = Wanted(r))
  PROVE  PageOK(r)'
<1>1. /\ Wanted(r)' = Wanted(r) /\ Principals(r)' = Principals(r)
      /\ \A d : HydrateCandidate(Caller(r), d)' <=> HydrateCandidate(Caller(r), d)
  BY SameSearch
<1>2. Got(r)' = got /\ Do(r)' = Do(r) /\ Nothing' = Nothing /\ Searching' = Searching
      /\ \A p : At(r, p)' <=> pc = p
  BY DEF Got, Do, Nothing, Searching, At
<1>3. pc = "hydrate" => HitsOK(r)'
  BY <1>1, <1>2 DEF HitsOK, StillLeft, Keys, Bounded
<1>4. (req[r].pc \in {"authenticate", "search"} /\ Got(r) # Nothing =>
         Got(r).space = Do(r).space /\ Got(r).shown \subseteq Wanted(r))'
  BY <1>1, <1>2
<1>5. (req[r].pc \in Searching => Got(r).shown \subseteq Wanted(r))'
  BY <1>1, <1>2
<1>6. (At(r, "candidates") => Got(r).principals = Principals(r))'
  BY <1>1, <1>2
<1>7. (At(r, "hydrate") => HitsOK(r))'
  BY <1>2, <1>3
<1>8. (At(r, "done") => req[r].answer = "error" \/ (req[r].answer = "ok" /\ Got(r).shown = Wanted(r)))'
  BY <1>1, <1>2
<1> QED BY <1>4, <1>5, <1>6, <1>7, <1>8 DEF PageOK

\* What a search looks in, when it is allowed.
LEMMA AllowedSpace ==
  ASSUME NEW r, Allowed(r)
  PROVE  MaySearch(Caller(r), Do(r)) /\ Space(r) = Do(r).space
BY DEF Allowed, Space, SearchedSpace

LEMMA WantedFinite ==
  ASSUME Coherent(db), TimesApart(db), NEW r, NEW S, S \subseteq Wanted(r)
  PROVE  IsFiniteSet(S) /\ Cardinality(S) \in Nat
<1>1. S \subseteq Resources
  BY DEF Wanted
<1>2. IsFiniteSet(S)
  BY <1>1, ResourcesFinite, FS_Subset
<1> QED BY <1>2, FS_CardinalityType

LEMMA BoundedIs ==
  ASSUME NEW all \in Nat
  PROVE  /\ Bounded(all) \in Nat /\ Bounded(all) <= all
         /\ Bounded(all) < Limit => Bounded(all) = all
<1>1. PICK n : n = HydrateFactor * Limit
  OBVIOUS
<1>2. n \in Nat /\ n >= Limit
  BY <1>1, HydrateAssumption, LimitAssumption
<1>3. Bounded(all) = IF all <= n THEN all ELSE n
  BY <1>1 DEF Bounded
<1> QED BY <1>2, <1>3, LimitAssumption

LEMMA SendsSearch ==
  ASSUME Inv, OnlySearches, NEW r \in Request, Send(r)
  PROVE  SearchOK(r)'
<1>0. DOMAIN req = Request
  BY DEF Inv
<1>1. PICK do \in Here.asks[r] :
        Becomes(r, [New EXCEPT !.do = do, !.pc = IF do.op \in Unauthenticated THEN do.op ELSE "authenticate"])
  BY DEF Send, Here
<1>2. do.op = "search"
  BY DEF OnlySearches
<1>3. do.op \notin Unauthenticated
  BY <1>2 DEF Unauthenticated
<1>4. PICK e : e = [New EXCEPT !.do = do, !.pc = "authenticate"]
  OBVIOUS
<1>5. req'[r] = e
  BY <1>0, <1>1, <1>3, <1>4 DEF Becomes
<1>6. e.do = do /\ e.pc = "authenticate" /\ e.auth = None /\ e.got = Nothing
  BY <1>4 DEF New
<1>7. PageOK(r)'
  BY <1>5, <1>6 DEF PageOK, At, Got, Searching, Nothing
<1>8. /\ (req[r].pc \in {"new", "authenticate", "search", "done"} \cup Searching)'
      /\ (req[r].pc \in {"search"} \cup Searching => Known(r))'
  BY <1>5, <1>6 DEF Searching
<1>9. /\ (~At(r, "new") => Do(r).op = "search")'
      /\ (~At(r, "new") /\ Caller(r) # None => Known(r))'
      /\ (At(r, "authenticate") /\ Got(r) # Nothing => Known(r))'
  BY <1>2, <1>5, <1>6 DEF Do, Caller, Got, Nothing
<1> QED BY <1>7, <1>8, <1>9 DEF SearchOK

\* A credential is of one caller.
LEMMA OneCaller ==
  ASSUME Coherent(db), NEW c, NEW a \in AuthenticateRequest(c), NEW b \in AuthenticateRequest(c)
  PROVE  a = b
<1>1. \A x \in GetSessionAuth(c) : c \in DOMAIN db.session
         /\ x = [user |-> db.session[c].user, space |-> None, session |-> c, mode |-> AgentMode(db.session[c].user)]
  BY DEF GetSessionAuth
<1>2. \A x \in GetAPIKeyAuth(c) : c \in DOMAIN db.key
         /\ x = [user |-> db.key[c].user, space |-> db.key[c].space, session |-> None,
                 mode |-> AgentMode(db.key[c].user)]
  BY DEF GetAPIKeyAuth
<1>3. \A x \in GetAgentAPIKeyAuth(c) : c \in DOMAIN db.token
         /\ x = [user |-> db.token[c].agent, space |-> db.agent[db.token[c].agent].space, session |-> None,
                 mode |-> AgentMode(db.token[c].agent)]
  BY DEF GetAgentAPIKeyAuth
<1>4. ~(c \in DOMAIN db.session /\ c \in DOMAIN db.key) /\ ~(c \in DOMAIN db.session /\ c \in DOMAIN db.token)
      /\ ~(c \in DOMAIN db.key /\ c \in DOMAIN db.token)
  BY DEF Coherent
<1>5. /\ a \in GetSessionAuth(c) \/ a \in GetAPIKeyAuth(c) \/ a \in GetAgentAPIKeyAuth(c)
      /\ b \in GetSessionAuth(c) \/ b \in GetAPIKeyAuth(c) \/ b \in GetAgentAPIKeyAuth(c)
  BY DEF AuthenticateRequest
<1> QED BY <1>1, <1>2, <1>3, <1>4, <1>5

\* The first page finds out who calls; on a later one the caller is the same.
LEMMA AuthenticatesSearch ==
  ASSUME Inv, index' = index, Coherent(db), NEW r \in Request, SearchOK(r), Authenticate(r)
  PROVE  SearchOK(r)'
<1>0. RequestShape(r)
  BY ShapeOK
<1>1. At(r, "authenticate") /\ req[r].pc = "authenticate" /\ ~At(r, "new") /\ db' = db /\ Do(r).op = "search"
  BY DEF Authenticate, At, SearchOK
<1>2. PICK found : found = AuthenticateRequest(Do(r).as)
  OBVIOUS
<1>3. CASE found = {} /\ Answer(r, "refused")
  <2>1. req[r].pc \in {"authenticate"}
    BY <1>1
  <2>2. Turn(r, {"authenticate"}, {"done"})
    BY <1>0, <1>3, <2>1, AnswerTurn
  <2>3. req'[r].do = req[r].do /\ req'[r].auth = req[r].auth /\ req'[r].pc = "done"
    BY <2>2 DEF Turn
  <2>4. ~Known(r)
    BY <1>2, <1>3 DEF Known
  <2>5. Caller(r) = None
    BY <1>1, <2>4 DEF SearchOK
  <2>6. ~Known(r)' /\ ~Allowed(r)'
    BY <1>1, <2>3, <2>4, SameSearch DEF Allowed
  <2>7. /\ (req[r].pc \in {"new", "authenticate", "search", "done"} \cup Searching)'
        /\ (req[r].pc \in {"search"} \cup Searching => Known(r))'
    BY <2>3 DEF Searching
  <2>8. /\ (~At(r, "new") => Do(r).op = "search")'
        /\ (~At(r, "new") /\ Caller(r) # None => Known(r))'
        /\ (At(r, "authenticate") /\ Got(r) # Nothing => Known(r))'
    BY <1>1, <2>3, <2>5 DEF Do, Caller, At
  <2> QED BY <2>6, <2>7, <2>8 DEF SearchOK
<1>4. ASSUME NEW auth \in found, Becomes(r, [req[r] EXCEPT !.auth = auth, !.pc = "search"])
      PROVE  SearchOK(r)'
  <2>1. PICK e : e = [req[r] EXCEPT !.auth = auth, !.pc = "search"]
    OBVIOUS
  <2>2. e.auth = auth /\ e.pc = "search" /\ e.do = req[r].do /\ e.got = req[r].got
    BY <1>0, <2>1 DEF RequestShape, Fields
  <2>3. req'[r] = e
    BY <1>0, <1>4, <2>1 DEF Becomes, RequestShape
  <2>4. AuthenticateRequest(Do(r).as)' = found
    <3>1. req'[r].do = req[r].do
      BY <2>2, <2>3
    <3>2. AuthenticateRequest(Do(r).as)' = AuthenticateRequest(Do(r).as)
      BY <1>1, <3>1 DEF Do, AuthenticateRequest, GetSessionAuth, GetAPIKeyAuth, GetAgentAPIKeyAuth, AgentMode
    <3> QED BY <1>2, <3>2
  <2>5. Known(r)'
    BY <1>4, <2>2, <2>3, <2>4 DEF Known, Caller
  <2>6. CASE Got(r) = Nothing
    <3>1. PageOK(r)'
      BY <2>2, <2>3, <2>6 DEF PageOK, At, Got, Searching, Nothing
    <3>2. /\ (req[r].pc \in {"new", "authenticate", "search", "done"} \cup Searching)'
          /\ (req[r].pc \in {"search"} \cup Searching => Known(r))'
      BY <2>2, <2>3, <2>5
    <3>3. /\ (~At(r, "new") => Do(r).op = "search")'
          /\ (~At(r, "new") /\ Caller(r) # None => Known(r))'
          /\ (At(r, "authenticate") /\ Got(r) # Nothing => Known(r))'
      BY <1>1, <2>2, <2>3, <2>5 DEF Do
    <3> QED BY <3>1, <3>2, <3>3 DEF SearchOK
  <2>7. CASE Got(r) # Nothing
    <3>1. Known(r)
      BY <1>1, <2>7 DEF SearchOK
    <3>2. auth = Caller(r)
      BY <1>2, <1>4, <3>1, OneCaller DEF Known
    <3>3. req'[r].auth = req[r].auth /\ req'[r].do = req[r].do
      BY <2>2, <2>3, <3>2 DEF Caller
    <3>4. Allowed(r) => Got(r).space = Do(r).space /\ Got(r).shown \subseteq Wanted(r)
      BY <1>1, <2>7 DEF SearchOK, PageOK
    <3>5. PICK pc, got : pc = "search" /\ pc = req'[r].pc /\ got = req'[r].got /\ got = Got(r)
      BY <2>2, <2>3 DEF Got
    <3>6. pc \notin Searching /\ pc # "done" /\ pc # "hydrate" /\ pc # "candidates"
      BY <3>5 DEF Searching
    <3>7. Allowed(r) => PageOK(r)'
      BY <1>1, <3>3, <3>4, <3>5, <3>6, PageMoves
    <3> QED BY <1>1, <3>1, <3>3, <3>5, <3>7, SearchGoesOn
  <2> QED BY <2>6, <2>7
<1> QED BY <1>1, <1>2, <1>3, <1>4 DEF Authenticate

LEMMA StartsSearch ==
  ASSUME Inv, index' = index, NEW r \in Request, SearchOK(r), StartSearch(r)
  PROVE  SearchOK(r)'
<1>0. RequestShape(r)
  BY ShapeOK
<1>1. req[r].pc = "search" /\ At(r, "search") /\ ~At(r, "new") /\ Known(r)
  BY DEF StartSearch, At, SearchOK
<1>2. /\ Turn(r, {"search"}, {"principals", "done"}) /\ db' = db
  BY <1>0, SearchTurns
<1>3. req'[r].do = req[r].do /\ req'[r].auth = req[r].auth /\ req'[r].pc \in {"principals", "done"}
  BY <1>2 DEF Turn
<1>4. req'[r].pc \in {"authenticate", "search", "done"} \cup Searching
  BY <1>3 DEF Searching
<1>5. ASSUME Allowed(r) PROVE PageOK(r)'
  <2>1. MaySearch(Caller(r), Do(r)) /\ PageOK(r)
    BY <1>1, <1>5, AllowedSpace DEF SearchOK
  <2>2. Got(r) # Nothing => Got(r).space = Do(r).space /\ Got(r).shown \subseteq Wanted(r)
    BY <1>1, <2>1 DEF PageOK
  <2>3. CursorMatches(r)
    BY <2>2 DEF CursorMatches
  <2>4. PICK got : got = IF Got(r) = Nothing THEN [space |-> Do(r).space, shown |-> {}] ELSE Got(r)
    OBVIOUS
  <2>5. Read(r, got, "principals")
    BY <2>1, <2>3, <2>4 DEF StartSearch
  <2>6. req[r].pc \in {"search"}
    BY <1>1
  <2>7. Turn(r, {"search"}, {"principals"}) /\ req'[r].got = got
    BY <1>0, <2>5, <2>6, ReadTurn
  <2>8. PICK pc : pc = "principals" /\ pc = req'[r].pc
    BY <2>7 DEF Turn
  <2>9. got.shown \subseteq Wanted(r)
    BY <2>2, <2>4
  <2>10. pc \notin {"authenticate", "search", "done", "hydrate", "candidates"}
    BY <2>8
  <2> QED BY <1>2, <1>3, <2>7, <2>8, <2>9, <2>10, PageMoves
<1> QED BY <1>1, <1>2, <1>3, <1>4, <1>5, SearchGoesOn

LEMMA ReadsPrincipals ==
  ASSUME Inv, index' = index, NEW r \in Request, SearchOK(r), ReadPrincipals(r)
  PROVE  SearchOK(r)'
<1>0. RequestShape(r)
  BY ShapeOK
<1>1. req[r].pc = "principals" /\ req[r].pc \in Searching /\ ~At(r, "new") /\ Known(r)
  BY DEF ReadPrincipals, At, SearchOK, Searching
<1>2. PICK got : got = [principals |-> Principals(r), space |-> Space(r), shown |-> Got(r).shown]
  OBVIOUS
<1>3. Read(r, got, "candidates")
  BY <1>2 DEF ReadPrincipals, Principals, Space
<1>4. req[r].pc \in {"principals"}
  BY <1>1
<1>5. Turn(r, {"principals"}, {"candidates"}) /\ db' = db /\ req'[r].got = got
  BY <1>0, <1>3, <1>4, ReadTurn
<1>6. req'[r].do = req[r].do /\ req'[r].auth = req[r].auth
  BY <1>5 DEF Turn
<1>7. PICK pc : pc = "candidates" /\ pc = req'[r].pc
  BY <1>5 DEF Turn
<1>8. pc \in {"authenticate", "search", "done"} \cup Searching
  BY <1>7 DEF Searching
<1>9. ASSUME Allowed(r) PROVE PageOK(r)'
  <2>1. Got(r).shown \subseteq Wanted(r)
    BY <1>1, <1>9 DEF SearchOK, PageOK
  <2>2. got.shown \subseteq Wanted(r) /\ got.principals = Principals(r)
    BY <1>2, <2>1
  <2>3. pc \notin {"authenticate", "search", "done", "hydrate"}
    BY <1>7
  <2> QED BY <1>5, <1>6, <1>7, <2>2, <2>3, PageMoves
<1> QED BY <1>1, <1>5, <1>6, <1>7, <1>8, <1>9, SearchGoesOn

\* The end of a page, when what is missing is still to come or there is none.
LEMMA EndsPage ==
  ASSUME Inv, index' = index, NEW r \in Request, SearchOK(r), ~At(r, "new"), req[r].pc \in {"candidates", "hydrate"},
         NEW more \in BOOLEAN, EndPage(r, Got(r), more),
         Allowed(r) => Got(r).space = Do(r).space /\ Got(r).shown \subseteq Wanted(r)
                       /\ (~more => Got(r).shown = Wanted(r))
  PROVE  SearchOK(r)'
<1>0. RequestShape(r)
  BY ShapeOK
<1>1. Known(r)
  BY DEF SearchOK, Searching
<1>2. PICK step, answer : step = (IF more THEN "authenticate" ELSE "done")
                          /\ answer = (IF more THEN req[r].answer ELSE "ok")
  OBVIOUS
<1>3. PICK got : got = [space |-> Got(r).space, shown |-> Got(r).shown]
  OBVIOUS
<1>4. PICK e : e = [req[r] EXCEPT !.got = got, !.pc = step, !.answer = answer]
  OBVIOUS
<1>5. req' = [req EXCEPT ![r] = e] /\ db' = db
  BY <1>2, <1>3, <1>4 DEF EndPage, Becomes
<1>6. /\ e.got = got /\ e.pc = step /\ e.answer = answer /\ e.do = req[r].do /\ e.auth = req[r].auth
  BY <1>0, <1>4 DEF RequestShape, Fields
<1>7. /\ req'[r].got = got /\ req'[r].pc = step /\ req'[r].answer = answer
      /\ req'[r].do = req[r].do /\ req'[r].auth = req[r].auth
  BY <1>0, <1>5, <1>6 DEF RequestShape
<1>8. step \in {"authenticate", "done"} /\ step \notin Searching
  BY <1>2 DEF Searching
<1>9. ASSUME Allowed(r) PROVE PageOK(r)'
  <2>1. got.space = Do(r).space /\ got.shown \subseteq Wanted(r)
    BY <1>3, <1>9
  <2>2. step = "done" => answer = "ok" /\ got.shown = Wanted(r)
    BY <1>2, <1>3, <1>9
  <2>3. step # "candidates" /\ step # "hydrate"
    BY <1>8
  <2> QED BY <1>5, <1>7, <1>8, <2>1, <2>2, <2>3, PageMoves
<1> QED BY <1>1, <1>5, <1>7, <1>8, <1>9, SearchGoesOn

LEMMA QueriesCandidates ==
  ASSUME Inv, index' = index, ShowInv, Coherent(db), SeatsAreMembers(db), index = FreshIndex, NEW r \in Request, SearchOK(r),
         QueryCandidates(r)
  PROVE  SearchOK(r)'
<1>0. RequestShape(r)
  BY ShapeOK
<1>1. req[r].pc = "candidates" /\ req[r].pc \in Searching /\ ~At(r, "new") /\ Known(r)
  BY DEF QueryCandidates, At, SearchOK, Searching
<1>2. PICK docs : docs = BuildSearchFilter(r, Got(r).principals)
  OBVIOUS
<1>3. PICK found \in Answers(docs) :
         \/ found = {} /\ EndPage(r, Got(r), FALSE)
         \/ found # {} /\ Becomes(r, [req[r] EXCEPT !.pc = "hydrate", !.got = Looking(r, found)]) /\ db' = db
  BY <1>2, CandidatesFound
<1>4. PICK all : all = Cardinality(Keys(found))
  OBVIOUS
<1>5. ASSUME Allowed(r)
      PROVE  /\ Got(r).space = Do(r).space /\ Got(r).shown \subseteq Wanted(r)
             /\ Keys(found) \subseteq Wanted(r) \ Got(r).shown
             /\ all \in Nat
             /\ all > Limit \/ Keys(found) = Wanted(r) \ Got(r).shown
             /\ \A d \in found : HydrateCandidate(Caller(r), d)
  <2>1. MaySearch(Caller(r), Do(r)) /\ Space(r) = Do(r).space
    BY <1>5, AllowedSpace
  <2>2. Got(r).space = Space(r)
    BY <1>1 DEF ShowInv, RequestShows, KeyScoped, Space
  <2>3. At(r, "candidates")
    BY <1>1 DEF At
  <2>4. Got(r).principals = Principals(r) /\ Got(r).shown \subseteq Wanted(r)
    BY <1>1, <1>5, <2>3 DEF SearchOK, PageOK
  <2>5. RowsOK
    BY DEF RowsOK, Inv, ShowInv
  <2>6. PICK P : P = Principals(r)
    OBVIOUS
  <2>7. docs = BuildSearchFilter(r, P)
    BY <1>2, <2>4, <2>6
  <2>8. /\ Keys(docs) = Wanted(r) \ Got(r).shown
        /\ \A d \in docs : HydrateCandidate(Caller(r), d)
    BY <2>1, <2>2, <2>5, <2>6, <2>7, FilterFinds
  <2>9. found \subseteq docs /\ (Crowded(docs) = {} => found = docs)
    BY AnswersAre
  <2>10. Keys(found) \subseteq Wanted(r) \ Got(r).shown
    BY <2>8, <2>9 DEF Keys
  <2>11. TimesApart(db)
    BY DEF ShowInv, TimesOK
  <2>12. IsFiniteSet(Keys(found)) /\ all \in Nat
    BY <1>4, <2>10, <2>11, WantedFinite
  <2>13. ASSUME NEW d \in Crowded(docs) PROVE all > Limit
    <3>1. d \in docs /\ Cardinality(Sharing(found, d)) \in TargetLimit .. 2 * TargetLimit
      BY <2>13, AnswersAre DEF Crowded
    <3>2. PICK some : some = Sharing(found, d)
      OBVIOUS
    <3>3. Cardinality(some) >= TargetLimit /\ some \subseteq found
      BY <3>1, <3>2, TargetAssumption DEF Sharing
    <3>4. Uncrowded(r)
      BY <1>5 DEF Allowed
    <3>5. \A e \in docs : e \in index /\ e.principal \in Principals(r)
      BY <2>6, <2>7 DEF BuildSearchFilter
    <3>6. PICK reached : reached = {e \in index : e.principal \in Principals(r)}
      OBVIOUS
    <3>7. \A e \in reached : \A S \in SUBSET Sharing(reached, e) :
            Cardinality(S) >= TargetLimit => Cardinality(Keys(S)) > Limit
      BY <3>4, <3>6 DEF Uncrowded
    <3>8. d \in reached /\ some \subseteq Sharing(reached, d)
      BY <2>9, <3>1, <3>2, <3>5, <3>6 DEF Sharing
    <3>9. Cardinality(Keys(some)) > Limit
      BY <3>3, <3>7, <3>8
    <3>10. Keys(some) \subseteq Keys(found)
      BY <3>3 DEF Keys
    <3>11. Cardinality(Keys(some)) <= all /\ Cardinality(Keys(some)) \in Nat
      BY <1>4, <2>12, <3>10, FS_Subset, FS_CardinalityType
    <3> QED BY <2>12, <3>9, <3>11, LimitAssumption
  <2>14. all > Limit \/ Keys(found) = Wanted(r) \ Got(r).shown
    BY <2>8, <2>9, <2>13
  <2>15. \A d \in found : HydrateCandidate(Caller(r), d)
    BY <2>8, <2>9
  <2> QED BY <2>1, <2>2, <2>4, <2>10, <2>12, <2>14, <2>15
<1>6. CASE found = {}
  <2>1. PICK more : more = FALSE
    OBVIOUS
  <2>2. EndPage(r, Got(r), more)
    BY <1>3, <1>6, <2>1
  <2>3. Keys(found) = {} /\ all = 0
    BY <1>4, <1>6, FS_EmptySet DEF Keys
  <2>4. Allowed(r) => /\ Got(r).space = Do(r).space /\ Got(r).shown \subseteq Wanted(r)
                      /\ (~more => Got(r).shown = Wanted(r))
    BY <1>5, <2>3, LimitAssumption
  <2> QED BY <1>1, <2>1, <2>2, <2>4, EndsPage
<1>7. CASE found # {}
  <2>1. PICK looked : looked = Bounded(all)
    OBVIOUS
  <2>2. PICK got : got = Looking(r, found)
    OBVIOUS
  <2>3. /\ got.shown = Got(r).shown /\ got.found = found
        /\ got.left = looked /\ got.hits = 0 /\ got.all = all
    BY <1>4, <2>1, <2>2 DEF Looking, Bounded
  <2>4. PICK e : e = [req[r] EXCEPT !.pc = "hydrate", !.got = got]
    OBVIOUS
  <2>5. Becomes(r, e) /\ db' = db
    BY <1>3, <1>7, <2>2, <2>4
  <2>6. e.pc = "hydrate" /\ e.got = got /\ e.do = req[r].do /\ e.auth = req[r].auth
    BY <1>0, <2>4 DEF RequestShape, Fields
  <2>7. req'[r] = e
    BY <1>0, <2>5 DEF Becomes, RequestShape
  <2>8. PICK pc : pc = "hydrate" /\ pc = req'[r].pc
    BY <2>6, <2>7
  <2>9. pc \in {"authenticate", "search", "done"} \cup Searching
    BY <2>8 DEF Searching
  <2>10. ASSUME Allowed(r) PROVE PageOK(r)'
    <3>1. /\ got.shown \subseteq Wanted(r) /\ StillLeft(r, got)
          /\ \A d \in got.found : HydrateCandidate(Caller(r), d)
      BY <1>5, <2>10, <2>3 DEF StillLeft
    <3>2. all \in Nat
      BY <1>5, <2>10
    <3>3. looked \in Nat
      BY <2>1, <3>2, BoundedIs
    <3>4. /\ got.left \in Nat /\ got.hits \in 0 .. Limit
          /\ got.all = got.hits + Cardinality(Keys(got.found))
          /\ got.left + got.hits = Bounded(got.all)
      BY <1>4, <2>1, <2>3, <3>2, <3>3, LimitAssumption
    <3>5. pc \notin {"authenticate", "search", "done", "candidates"} /\ got = req'[r].got
      BY <2>6, <2>7, <2>8
    <3> QED BY <2>5, <2>6, <2>7, <2>8, <3>1, <3>4, <3>5, PageMoves
  <2> QED BY <1>1, <2>5, <2>6, <2>7, <2>8, <2>9, <2>10, SearchGoesOn
<1> QED BY <1>6, <1>7

\* A candidate that is checked is a hit, and one less to find.
LEMMA HydratesOne ==
  ASSUME Inv, index' = index, ShowInv, Coherent(db), NEW r \in Request, SearchOK(r), Hydrate(r)
  PROVE  SearchOK(r)'
<1>0. RequestShape(r) /\ KeyScoped(r)
  BY ShapeOK DEF ShowInv, RequestShows
<1>1. req[r].pc = "hydrate" /\ req[r].pc \in Searching /\ ~At(r, "new") /\ Known(r) /\ At(r, "hydrate")
      /\ Got(r).left > 0 /\ Got(r).hits < Limit
  BY DEF Hydrate, At, SearchOK, Searching
<1>2. PICK d \in Got(r).found :
        LET hit == HydrateCandidate(Caller(r), d)
        IN Read(r, [Got(r) EXCEPT !.found = {o \in @ : <<o.kind, o.id>> # <<d.kind, d.id>>},
                      !.left = @ - 1, !.hits = IF hit THEN @ + 1 ELSE @,
                      !.shown = IF hit THEN @ \cup {<<d.kind, d.id>>} ELSE @], "hydrate")
  BY DEF Hydrate
<1>3. PICK x : x = <<d.kind, d.id>>
  OBVIOUS
<1>4. PICK hit : hit = HydrateCandidate(Caller(r), d)
  OBVIOUS
<1>5. PICK got : got = [Got(r) EXCEPT !.found = {o \in @ : <<o.kind, o.id>> # x},
                      !.left = @ - 1, !.hits = IF hit THEN @ + 1 ELSE @,
                      !.shown = IF hit THEN @ \cup {x} ELSE @]
  OBVIOUS
<1>6. Read(r, got, "hydrate")
  BY <1>2, <1>3, <1>4, <1>5
<1>7. req[r].pc \in {"hydrate"} /\ "done" \notin {"hydrate"}
  BY <1>1
<1>8. Turn(r, {"hydrate"}, {"hydrate"}) /\ db' = db /\ req'[r].got = got
  BY <1>0, <1>6, <1>7, ReadTurn
<1>9. req'[r].do = req[r].do /\ req'[r].auth = req[r].auth
  BY <1>8 DEF Turn
<1>10. PICK pc : pc = "hydrate" /\ pc = req'[r].pc
  BY <1>8 DEF Turn
<1>11. pc \in {"authenticate", "search", "done"} \cup Searching
  BY <1>10 DEF Searching
<1>12. DOMAIN Got(r) = HitFields
  BY <1>0, <1>1 DEF KeyScoped
<1>13. ASSUME Allowed(r) PROVE PageOK(r)'
  <2>1. HitsOK(r) /\ Got(r).shown \subseteq Wanted(r)
    BY <1>1, <1>13 DEF SearchOK, PageOK
  <2>2. hit
    BY <1>4, <2>1 DEF HitsOK
  <2>3. PICK found, shown, left, hits, all :
          /\ found = Got(r).found /\ shown = Got(r).shown /\ left = Got(r).left /\ hits = Got(r).hits
          /\ all = Got(r).all
    OBVIOUS
  <2>4. /\ got.found = {o \in found : <<o.kind, o.id>> # x} /\ got.shown = shown \cup {x}
        /\ got.left = left - 1 /\ got.hits = hits + 1 /\ got.all = all
    BY <1>5, <1>12, <2>2, <2>3 DEF HitFields
  <2>5. x \in Keys(found)
    BY <1>3, <2>3, KeysAre
  <2>6. Keys(got.found) = Keys(found) \ {x}
    BY <2>4, KeysAre
  <2>7. /\ Keys(found) \subseteq Wanted(r) \ shown /\ (all > Limit \/ Keys(found) = Wanted(r) \ shown)
        /\ \A o \in found : HydrateCandidate(Caller(r), o)
        /\ left \in Nat /\ hits \in 0 .. Limit /\ all = hits + Cardinality(Keys(found))
        /\ left + hits = Bounded(all) /\ left > 0 /\ hits < Limit
    BY <1>1, <2>1, <2>3 DEF HitsOK, StillLeft
  <2>8. StillLeft(r, got) /\ got.shown \subseteq Wanted(r)
    <3>1. /\ Keys(got.found) \subseteq Wanted(r) \ got.shown /\ got.shown \subseteq Wanted(r)
          /\ Keys(found) = Wanted(r) \ shown => Keys(got.found) = Wanted(r) \ got.shown
      BY <2>1, <2>3, <2>4, <2>5, <2>6, <2>7
    <3> QED BY <2>4, <2>7, <3>1 DEF StillLeft
  <2>9. Keys(found) \subseteq Wanted(r) /\ TimesApart(db)
    BY <2>7 DEF ShowInv, TimesOK
  <2>10. IsFiniteSet(Keys(found)) /\ Cardinality(Keys(found)) \in Nat
    BY <2>9, WantedFinite
  <2>11. Cardinality(Keys(got.found)) = Cardinality(Keys(found)) - 1
    BY <2>5, <2>6, <2>10, FS_RemoveElement
  <2>12. /\ got.left \in Nat /\ got.hits \in 0 .. Limit
         /\ got.all = got.hits + Cardinality(Keys(got.found))
         /\ got.left + got.hits = Bounded(got.all)
    <3>1. PICK n, b : n = Cardinality(Keys(found)) /\ b = Bounded(all)
      OBVIOUS
    <3>2. n \in Nat /\ all = hits + n /\ left + hits = b
      BY <2>7, <2>10, <3>1
    <3>3. Cardinality(Keys(got.found)) = n - 1 /\ Bounded(got.all) = b
      BY <2>4, <2>11, <3>1
    <3>4. left - 1 \in Nat /\ hits + 1 \in 0 .. Limit /\ all = (hits + 1) + (n - 1) /\ (left - 1) + (hits + 1) = b
      BY <2>7, <3>2, LimitAssumption
    <3>5. got.left \in Nat /\ got.hits \in 0 .. Limit
      BY <2>4, <3>4
    <3>6. got.all = got.hits + Cardinality(Keys(got.found))
      BY <2>4, <3>3, <3>4
    <3>7. got.left + got.hits = Bounded(got.all)
      <4>1. PICK x1, x2 : x1 = left - 1 /\ x2 = hits + 1
        OBVIOUS
      <4>2. x1 + x2 = b
        BY <3>4, <4>1
      <4>3. got.left = x1 /\ got.hits = x2
        BY <2>4, <4>1
      <4> QED BY <3>3, <4>2, <4>3
    <3> QED BY <3>5, <3>6, <3>7
  <2>13. \A o \in got.found : HydrateCandidate(Caller(r), o)
    BY <2>4, <2>7
  <2>14. pc \notin {"authenticate", "search", "done", "candidates"} /\ got = req'[r].got
    BY <1>8, <1>10
  <2> QED BY <1>8, <1>9, <1>10, <2>8, <2>12, <2>13, <2>14, PageMoves
<1> QED BY <1>1, <1>8, <1>9, <1>10, <1>11, <1>13, SearchGoesOn

\* Every candidate is a hit: a page that is not full has looked at them all.
LEMMA FinishesSearch ==
  ASSUME Inv, index' = index, ShowInv, Coherent(db), NEW r \in Request, SearchOK(r), FinishSearch(r)
  PROVE  SearchOK(r)'
<1>1. req[r].pc = "hydrate" /\ req[r].pc \in Searching /\ ~At(r, "new") /\ At(r, "hydrate")
      /\ (Got(r).left = 0 \/ Got(r).hits = Limit)
  BY DEF FinishSearch, At, Searching
<1>2. PICK more : more = (Got(r).hits = Limit /\ Got(r).all > Got(r).hits)
  OBVIOUS
<1>3. EndPage(r, Got(r), more) /\ more \in BOOLEAN
  BY <1>2 DEF FinishSearch
<1>4. ASSUME Allowed(r)
      PROVE  Got(r).space = Do(r).space /\ Got(r).shown \subseteq Wanted(r) /\ (~more => Got(r).shown = Wanted(r))
  <2>1. HitsOK(r) /\ Got(r).shown \subseteq Wanted(r)
    BY <1>1, <1>4 DEF SearchOK, PageOK
  <2>2. Got(r).space = Space(r) /\ Space(r) = Do(r).space
    BY <1>1, <1>4, AllowedSpace DEF ShowInv, RequestShows, KeyScoped, Space
  <2>3. PICK keys, left, hits, all :
          keys = Keys(Got(r).found) /\ left = Got(r).left /\ hits = Got(r).hits /\ all = Got(r).all
    OBVIOUS
  <2>4. /\ keys \subseteq Wanted(r) \ Got(r).shown /\ (all > Limit \/ keys = Wanted(r) \ Got(r).shown)
        /\ left \in Nat /\ hits \in 0 .. Limit
        /\ all = hits + Cardinality(keys) /\ left + hits = Bounded(all)
    BY <2>1, <2>3 DEF HitsOK, StillLeft
  <2>5. TimesApart(db) /\ keys \subseteq Wanted(r)
    BY <2>4 DEF ShowInv, TimesOK
  <2>6. IsFiniteSet(keys) /\ Cardinality(keys) \in Nat
    BY <2>5, WantedFinite
  <2>7. all \in Nat
    BY <2>4, <2>6
  <2>8. Bounded(all) < Limit => Bounded(all) = all
    BY <2>7, BoundedIs
  <2>9. ASSUME ~more PROVE Cardinality(keys) = 0 /\ all <= Limit
    <3>1. left = 0 \/ hits = Limit
      BY <1>1, <2>3
    <3>2. hits = Limit => all <= hits
      <4>1. ~(hits = Limit /\ all > hits)
        BY <1>2, <2>3, <2>9, Zenon
      <4>2. hits \in Nat
        BY <2>4, LimitAssumption
      <4> QED BY <2>7, <4>1, <4>2
    <3>3. PICK n, b : n = Cardinality(keys) /\ b = Bounded(all)
      OBVIOUS
    <3>4. n \in Nat /\ all = hits + n /\ left + hits = b /\ (b < Limit => b = all)
      BY <2>4, <2>6, <2>8, <3>3
    <3>5. CASE hits = Limit
      BY <2>4, <3>2, <3>3, <3>4, <3>5, LimitAssumption
    <3>6. CASE hits # Limit
      <4>1. left = 0 /\ hits < Limit /\ hits \in Nat
        BY <2>4, <3>1, <3>6, LimitAssumption
      <4>2. b = hits
        BY <3>4, <4>1
      <4>3. hits = hits + n
        BY <3>4, <4>1, <4>2
      <4> QED BY <3>3, <3>4, <4>1, <4>3, LimitAssumption
    <3> QED BY <3>5, <3>6
  <2>10. ~more => keys = {} /\ keys = Wanted(r) \ Got(r).shown
    <3>1. ~more => Cardinality(keys) = 0 /\ ~(all > Limit)
      BY <2>7, <2>9, LimitAssumption
    <3> QED BY <2>4, <2>6, <3>1, FS_EmptySet
  <2> QED BY <2>1, <2>2, <2>4, <2>10
<1> QED BY <1>1, <1>3, <1>4, EndsPage

-----------------------------------------------------------------------------
(***************************************************************************)
(* All steps.                                                              *)
(***************************************************************************)

\* No request does anything else.
LEMMA OnlySearchSteps ==
  ASSUME Inv, NEW r \in Request, SearchOK(r), Step(r)
  PROVE  SearchStep(r) \/ Send(r) \/ Authenticate(r)
<1>1. req[r].pc \in {"new", "authenticate", "done"} \/ req[r].pc = "search" \/ req[r].pc \in Searching
  BY DEF SearchOK
<1>2. {"new", "authenticate", "done", "page"} \subseteq Steps
  BY SMTT(30) DEF Steps
<1>3. ASSUME AsidePlace(r) PROVE FALSE
  <2>1. CASE req[r].pc \in AsideOps
    BY <1>1, <1>2, <2>1, AsidePlaces
  <2>2. CASE req[r].pc \in AsideSteps
    BY <1>1, <2>2, AsidePlaces
  <2>3. CASE req[r].pc \in {"edit", "delete"}
    BY <1>1, <2>3 DEF Searching
  <2> QED BY <1>3, <2>1, <2>2, <2>3 DEF AsidePlace, Elsewhere
<1>4. ASSUME Lists(r) PROVE FALSE
  <2>1. CASE req[r].pc \in ReadOps
    BY <1>1, <1>2, <2>1, AsidePlaces DEF ReadOps
  <2>2. CASE req[r].pc \in ListOps
    BY <1>1, <1>2, <2>2, AsidePlaces DEF ListOps
  <2>3. CASE req[r].pc = "page"
    BY <1>1, <2>3 DEF Searching
  <2> QED BY <1>4, <2>1, <2>2, <2>3 DEF Lists, Show, CheckList, ListMessages, ListConversations, ListEvents, At
<1> QED BY <1>3, <1>4, AccessAside, MessagingAside DEF Step

LEMMA SearchesStep ==
  ASSUME Inv, index' = index, ShowInv, OnlySearches, Coherent(db), SeatsAreMembers(db), index = FreshIndex,
         NEW r \in Request, SearchOK(r), Step(r)
  PROVE  db' = db /\ SearchOK(r)'
<1>1. RequestShape(r)
  BY ShapeOK
<1>2. CASE SearchStep(r)
  BY <1>1, <1>2, SearchTurns, StartsSearch, ReadsPrincipals, QueriesCandidates, HydratesOne, FinishesSearch
     DEF SearchStep
<1>3. CASE Send(r)
  BY <1>3, SendsSearch DEF Send
<1>4. CASE Authenticate(r)
  BY <1>4, AuthenticatesSearch DEF Authenticate
<1> QED BY <1>2, <1>3, <1>4, OnlySearchSteps

LEMMA CrashesSearch ==
  ASSUME Inv, index' = index, NEW r \in Request, SearchOK(r), Crash(r)
  PROVE  db' = db /\ SearchOK(r)'
<1>0. RequestShape(r) /\ db' = db /\ Answer(r, "error") /\ ~At(r, "new")
  BY ShapeOK DEF Crash, Fails, At
<1>1. PICK from : from = {req[r].pc}
  OBVIOUS
<1>2. req[r].pc \in from /\ "error" \in {"ok", "refused", "error"}
  BY <1>1
<1>3. Turn(r, from, {"done"}) /\ req'[r].answer = "error"
  BY <1>0, <1>2, AnswerTurn
<1>4. req'[r].do = req[r].do /\ req'[r].auth = req[r].auth /\ req'[r].pc = "done"
  BY <1>3 DEF Turn
<1>5. Known(r)' <=> Known(r)
  BY <1>0, <1>4, SameSearch
<1>6. PageOK(r)'
  BY <1>3, <1>4 DEF PageOK, At, Searching
<1>7. /\ (req[r].pc \in {"new", "authenticate", "search", "done"} \cup Searching)'
      /\ (req[r].pc \in {"search"} \cup Searching => Known(r))'
  BY <1>4 DEF Searching
<1>8. Do(r).op = "search" /\ (Caller(r) # None => Known(r))
  BY <1>0 DEF SearchOK
<1>9. /\ (~At(r, "new") => Do(r).op = "search")'
      /\ (~At(r, "new") /\ Caller(r) # None => Known(r))'
      /\ (At(r, "authenticate") /\ Got(r) # Nothing => Known(r))'
  BY <1>4, <1>5, <1>8 DEF Do, Caller, At
<1> QED BY <1>0, <1>6, <1>7, <1>9 DEF SearchOK

LEMMA InitSearches == Init => SearchInv
<1>1. SUFFICES ASSUME Init, OnlySearches
               PROVE  db = Here.db /\ index = FreshIndex /\ \A r \in Request : SearchOK(r)
  BY DEF SearchInv
<1>2. db = Here.db /\ index = FreshIndex
  BY <1>1 DEF Init, OnlySearches
<1>3. ASSUME NEW r \in Request PROVE SearchOK(r)
  <2>1. req[r].pc = "new"
    BY <1>1 DEF Init, New
  <2> QED BY <2>1 DEF SearchOK, At, Searching
<1> QED BY <1>2, <1>3

LEMMA NextSearches == Inv /\ ShowInv /\ SearchInv /\ [Next]_vars => SearchInv'
<1>1. SUFFICES ASSUME Inv, ShowInv, SearchInv, [Next]_vars, OnlySearches'
               PROVE  (db = Here.db /\ index = FreshIndex /\ \A r \in Request : SearchOK(r))'
  BY DEF SearchInv
<1>2. scene' = scene
  BY <1>1 DEF Next, Serve, Others, vars
<1>3. OnlySearches
  BY <1>1, <1>2 DEF OnlySearches, Here
<1>4. db = Here.db /\ index = FreshIndex /\ \A r \in Request : SearchOK(r)
  BY <1>1, <1>3 DEF SearchInv
<1>5. Coherent(db) /\ SeatsAreMembers(db)
  BY <1>1, <1>3, <1>4, ScenesAssumption DEF Inv, Here, OnlySearches
<1>6. ASSUME db' = db, index' = index, NEW r \in Request, req' = [req EXCEPT ![r] = req'[r]], SearchOK(r)'
      PROVE  (db = Here.db /\ index = FreshIndex /\ \A q \in Request : SearchOK(q))'
  <2>1. \A q \in Request : q # r => req'[q] = req[q]
    BY <1>1, <1>6 DEF Inv
  <2>2. ASSUME NEW q \in Request PROVE SearchOK(q)'
    BY <1>4, <1>6, <2>1, SameRequest
  <2>3. (db = Here.db)' /\ (index = FreshIndex)'
    BY <1>2, <1>4, <1>6, SameIndex DEF Here
  <2> QED BY <2>2, <2>3
<1>7. ASSUME NEW r \in Request, Serve(r)
      PROVE  (db = Here.db /\ index = FreshIndex /\ \A q \in Request : SearchOK(q))'
  <2>1. Step(r) /\ index' = index
    BY <1>7 DEF Serve
  <2>2. req' = [req EXCEPT ![r] = req'[r]]
    BY <1>1, <2>1, OwnTurn
  <2>3. db' = db /\ SearchOK(r)'
    BY <1>1, <1>3, <1>4, <1>5, <2>1, SearchesStep
  <2> QED BY <1>6, <2>1, <2>2, <2>3
<1>8. CASE UNCHANGED <<db, req, index>>
  <2>1. ASSUME NEW q \in Request PROVE SearchOK(q)'
    BY <1>4, <1>8, SameRequest
  <2>2. (db = Here.db)' /\ (index = FreshIndex)'
    BY <1>2, <1>4, <1>8, SameIndex DEF Here
  <2> QED BY <2>1, <2>2
<1>9. CASE Others
  <2>1. ~Churn
    BY <1>1, <1>3 DEF Churn, Inv, OnlySearches
  <2>2. ~Here.projected /\ ~Reindex(Here.reindexed)
    BY <1>3 DEF OnlySearches, Reindex
  <2>3. PICK r \in Request : Crash(r) /\ index' = index
    BY <1>9, <2>1, <2>2 DEF Others
  <2>4. db' = db /\ SearchOK(r)'
    BY <1>1, <1>4, <2>3, CrashesSearch
  <2>5. req' = [req EXCEPT ![r] = req'[r]]
    <3>1. RequestShape(r)
      BY <1>1, ShapeOK
    <3>2. PICK from : from = {req[r].pc}
      OBVIOUS
    <3>3. req[r].pc \in from /\ (Refuse(r) \/ Fails(r))
      BY <2>3, <3>2 DEF Crash
    <3>4. Turn(r, from, {"done"})
      BY <3>1, <3>3, RefuseTurn
    <3> QED BY <3>4 DEF Turn
  <2> QED BY <1>6, <2>3, <2>4, <2>5
<1>10. UNCHANGED vars => UNCHANGED <<db, req, index>>
  BY DEF vars
<1> QED BY <1>1, <1>7, <1>8, <1>9, <1>10 DEF Next

\* When nothing changes meanwhile and the index is up to date, a search that is
\* followed to its end finds all there is to find and nothing else, however
\* many requests search at once: the documents of a resource are of a principal
\* of a caller exactly when the caller may see it, each candidate is a hit, and
\* there is a cursor whenever some are left.  It is so where no Limit resources
\* have so many documents that they fill the answer of a namespace, which is
\* cut off at TargetLimit documents (internal/search, runtime.go, documents.go,
\* principals.go, loaders.go).
THEOREM SearchFindsAll == Spec => []SearchComplete
<1>1. Inv /\ SearchInv => SearchComplete
  <2>1. SUFFICES ASSUME Inv, SearchInv, NEW r \in Request, OnlySearches, At(r, "done"),
                        Caller(r) # None, req[r].answer # "error",
                        MaySearch(Caller(r), Do(r)), Caller(r).space # None => Do(r).space # None,
                        Uncrowded(r)
                 PROVE  req[r].answer = "ok" /\ Got(r).shown = Wanted(r)
    BY DEF SearchComplete
  <2>2. SearchOK(r) /\ ~At(r, "new")
    BY <2>1 DEF SearchInv, At
  <2>3. Known(r)
    BY <2>1, <2>2 DEF SearchOK
  <2>4. Allowed(r)
    BY <2>1, <2>3 DEF Allowed
  <2>5. PageOK(r)
    BY <2>2, <2>4 DEF SearchOK
  <2> QED BY <2>1, <2>5 DEF PageOK
<1>2. Spec => []SearchInv
  BY InitSearches, NextSearches, ServiceInv, ServiceShowInv, PTL DEF Spec
<1> QED BY <1>1, <1>2, ServiceInv, PTL

=============================================================================
