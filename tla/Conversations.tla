--------------------------- MODULE Conversations ---------------------------
(***************************************************************************)
(* The conversation handlers of routes_messaging.go that change who is in  *)
(* a conversation: create, add and remove participants, share links, join. *)
(* What a handler checks before its transaction it reads from the          *)
(* committed rows, and it does not look again.                             *)
(***************************************************************************)
EXTENDS Database

ConversationCommands ==
  [op : {"createConversation"}, by : User, scope : Scope, who : SUBSET User]
  \cup [op : {"addParticipants"}, by : User, conv : Conversation, who : SUBSET User]
  \cup [op : {"deleteParticipant"}, by : User, conv : Conversation, user : User]
  \cup [op : {"getShareLink", "rotateShareLink"}, by : User, conv : Conversation]
  \cup [op : {"join"}, by : User, link : Link]

\* ensureConversationAccess and ensureConversationPermission
Access(v, u, c) ==
  \/ v[Conv(c)].scope = "global"  /\ v[Seat(c, u)]
  \/ v[Conv(c)].scope = "private" /\ v[Seat(c, u)] /\ Active(v, u)
  \/ v[Conv(c)].scope = "wide"    /\ Active(v, u)

Manages(v, u, c) ==
  /\ Access(v, u, c)
  /\ \/ v[Conv(c)].creator = u
     \/ v[Conv(c)].scope # "global" /\ v[Member(u)].role \in {"owner", "admin"}

\* Participants of a direct message are never changed, and it has no link.
Mutable(v, c) == MembersOnly(v, c) /\ ~IsDM(v, c)

-----------------------------------------------------------------------------
Everyone(do) == do.who \cup {do.by}
DirectMessage(do) == do.scope = "global" /\ Cardinality(Everyone(do)) = 2

CreateConversation(t, do) ==
  /\ do.op = "createConversation"
  /\ do.scope # "global" => Active(db, do.by)
  /\ do.scope = "wide" => do.who = {}
  /\ Begin(t, do, IF do.scope = "wide" THEN "insert" ELSE "look up")

\* One query: are all of them active members, or has the pair its conversation.
LookUp(t) ==
  LET do == tx[t].do
  IN /\ At(t, "look up")
     /\ IF do.scope = "private" /\ \E u \in Everyone(do) : ~Active(View(t), u)
        THEN Rollback(t)
        ELSE Goto(t, IF DirectMessage(do) /\ View(t)[Pair(Everyone(do))] # None
                     THEN "done" ELSE "insert")

FreshConv(c) == db[Conv(c)].scope = "none" /\ \A t \in Request : Conv(c) \notin DOMAIN tx[t].writes
FreshLink(l) == db[Share(l)].conv = None /\ \A t \in Request : Share(l) \notin DOMAIN tx[t].writes

\* A link goes with every members-only conversation but direct messages.
WithLink(do) == do.scope # "wide" /\ ~DirectMessage(do)

\* The rows of a new conversation.
NewConversation(c, l, do) ==
  LET row   == Only(Conv(c), [scope |-> do.scope, creator |-> do.by])
      seats == [r \in {Seat(c, u) : u \in Everyone(do)} |-> TRUE]
  IN IF do.scope = "wide" THEN row
     ELSE IF WithLink(do) THEN Overlay(row, Overlay(seats, Only(Share(l), [conv |-> c, active |-> TRUE])))
     ELSE Overlay(row, Overlay(seats, Only(Pair(Everyone(do)), c)))

\* Mutant: no unique pair.
InsertConversationTwice(t) ==
  LET do == tx[t].do
  IN /\ At(t, "insert")
     /\ \E c \in Conversation, l \in Link :
          /\ FreshConv(c) /\ (WithLink(do) => FreshLink(l))
          /\ LET w == NewConversation(c, l, do)
             IN Becomes(t, [Wrote(t, w, DOMAIN w \ {Pair(Everyone(do))}) EXCEPT !.pc = "done"])

\* The inserts concern rows nobody else can see, except the pair, which is
\* unique: the second to insert it waits for the first.
InsertConversation(t) ==
  LET do   == tx[t].do
      pair == Pair(Everyone(do))
  IN
  /\ At(t, "insert")
  /\ DirectMessage(do) => Free(t, pair)
  /\ IF DirectMessage(do) /\ View(t)[pair] # None
     THEN Rollback(t)
     ELSE \E c \in Conversation, l \in Link :
            /\ FreshConv(c) /\ (WithLink(do) => FreshLink(l))
            /\ LET w == NewConversation(c, l, do)
               IN Becomes(t, [Wrote(t, w, DOMAIN w \ {pair}) EXCEPT !.pc = "done"])

-----------------------------------------------------------------------------
AddParticipants(t, do) ==
  /\ do.op = "addParticipants"
  /\ Access(db, do.by, do.conv) /\ Mutable(db, do.conv)
  /\ Begin(t, do, "members")

CheckMembers(t) ==
  LET do == tx[t].do
  IN /\ At(t, "members")
     /\ IF db[Conv(do.conv)].scope = "private" /\ \E u \in do.who : ~Active(View(t), u)
        THEN Rollback(t)
        ELSE Becomes(t, [tx[t] EXCEPT !.todo = do.who, !.pc = "add"])

\* insert ... on conflict do nothing; an event only for a row that was missing.
\* The order in which the request names the users is left open.
TakeSeat(t, c, u) ==
  IF View(t)[Seat(c, u)] THEN tx[t] ELSE Wrote(t, Only(Seat(c, u), TRUE), {Seat(c, u)})

AddOne(t) ==
  /\ At(t, "add")
  /\ \/ tx[t].todo = {} /\ Goto(t, "done")
     \/ \E u \in tx[t].todo :
          /\ Free(t, Seat(tx[t].do.conv, u))
          /\ Becomes(t, [TakeSeat(t, tx[t].do.conv, u) EXCEPT !.todo = @ \ {u}])

-----------------------------------------------------------------------------
DeleteParticipant(t, do) ==
  /\ do.op = "deleteParticipant"
  /\ Manages(db, do.by, do.conv) /\ Mutable(db, do.conv)
  /\ Begin(t, do, "count people")

CountPeople(t) ==
  /\ At(t, "count people")
  /\ IF Cardinality(People(View(t), tx[t].do.conv)) <= 1 THEN Rollback(t) ELSE Goto(t, "delete")

\* Mutant: no event for a participant that leaves.
LeaveSeatUntold(t, c, u) == Wrote(t, Only(Seat(c, u), FALSE), {})

\* A delete waits for the row if there is one to be seen.
Deletable(t, c, u) == View(t)[Seat(c, u)] => Free(t, Seat(c, u))
LeaveSeat(t, c, u) == Wrote(t, Only(Seat(c, u), FALSE), {Seat(c, u)})

Delete(t) ==
  LET c == tx[t].do.conv
      u == tx[t].do.user
  IN /\ At(t, "delete")
     /\ Deletable(t, c, u)
     /\ IF View(t)[Seat(c, u)] THEN Becomes(t, [LeaveSeat(t, c, u) EXCEPT !.pc = "done"])
        ELSE Rollback(t)

-----------------------------------------------------------------------------
ShareLink(t, do) ==
  /\ do.op \in {"getShareLink", "rotateShareLink"}
  /\ Manages(db, do.by, do.conv) /\ Mutable(db, do.conv)
  /\ Begin(t, do, "find link")

ActiveLinks(v, c) == {l \in Link : v[Share(l)] = [conv |-> c, active |-> TRUE]}

\* The statement (select for update, or the revoking update) sees the link
\* that is active when it starts, and then waits for its row.
FindLink(t) ==
  LET found == ActiveLinks(View(t), tx[t].do.conv)
  IN /\ At(t, "find link")
     /\ Becomes(t, [tx[t] EXCEPT !.todo = found, !.pc = IF found = {} THEN "new link" ELSE "lock link"])

\* With the row it looks again: a link revoked meanwhile is no row found.
LockLink(t) ==
  /\ At(t, "lock link")
  /\ \E l \in tx[t].todo :
       LET still   == View(t)[Share(l)].active
           revoked == Wrote(t, Only(Share(l), [conv |-> tx[t].do.conv, active |-> FALSE]), {})
       IN /\ Free(t, Share(l))
          /\ \/ ~still /\ Goto(t, "new link")
             \/ still /\ tx[t].do.op = "getShareLink"
                /\ Becomes(t, [tx[t] EXCEPT !.locks = @ \cup {Share(l)}, !.pc = "done"])
             \/ still /\ tx[t].do.op = "rotateShareLink" /\ Becomes(t, [revoked EXCEPT !.pc = "new link"])

\* Mutant: no unique index on active links.
NewLinkBlind(t) ==
  /\ At(t, "new link")
  /\ \E l \in Link :
       /\ FreshLink(l)
       /\ Becomes(t, [Wrote(t, Only(Share(l), [conv |-> tx[t].do.conv, active |-> TRUE]), {Share(l)})
                      EXCEPT !.pc = "done"])

\* One active link per conversation is a unique index: the insert waits for
\* whoever has touched a link of this conversation, and fails if one remains.
NewLink(t) ==
  LET c == tx[t].do.conv
  IN /\ At(t, "new link")
     /\ \A l \in Link, o \in Others(t) :
          Share(l) \in DOMAIN tx[o].writes => tx[o].writes[Share(l)].conv # c
     /\ IF ActiveLinks(View(t), c) # {}
        THEN Rollback(t)
        ELSE \E l \in Link :
               /\ FreshLink(l)
               /\ Becomes(t, [Wrote(t, Only(Share(l), [conv |-> c, active |-> TRUE]), {Share(l)})
                              EXCEPT !.pc = "done"])

-----------------------------------------------------------------------------
JoinConversation(t, do) == do.op = "join" /\ Begin(t, do, "link")

\* Mutant: the link is read without for update.
ReadLinkUnlocked(t) ==
  LET l == tx[t].do.link
  IN /\ At(t, "link")
     /\ IF db[Share(l)].conv = None \/ ~db[Share(l)].active \/ ~Mutable(db, db[Share(l)].conv)
        THEN Rollback(t) ELSE Goto(t, "entitled")

\* select ... for update by token: the row is held until the seat is taken.
ReadLink(t) ==
  LET l == tx[t].do.link
  IN /\ At(t, "link")
     /\ IF db[Share(l)].conv = None THEN Rollback(t)
        ELSE /\ Free(t, Share(l))
             /\ IF ~db[Share(l)].active \/ ~Mutable(db, db[Share(l)].conv) THEN Rollback(t)
                ELSE Becomes(t, [tx[t] EXCEPT !.locks = @ \cup {Share(l)}, !.pc = "entitled"])

\* The membership is read on another connection.
CheckEntitled(t) ==
  /\ At(t, "entitled")
  /\ IF db[Conv(db[Share(tx[t].do.link)].conv)].scope = "private" /\ ~Active(db, tx[t].do.by)
     THEN Rollback(t) ELSE Goto(t, "sit")

Sit(t) ==
  LET c == db[Share(tx[t].do.link)].conv
  IN /\ At(t, "sit")
     /\ Free(t, Seat(c, tx[t].do.by))
     /\ Becomes(t, [TakeSeat(t, c, tx[t].do.by) EXCEPT !.pc = "done"])

-----------------------------------------------------------------------------
ConversationRequest(t, do) ==
  \/ CreateConversation(t, do) \/ AddParticipants(t, do) \/ DeleteParticipant(t, do)
  \/ ShareLink(t, do) \/ JoinConversation(t, do)

ConversationStep(t) ==
  \/ LookUp(t) \/ InsertConversation(t)
  \/ CheckMembers(t) \/ AddOne(t)
  \/ CountPeople(t) \/ Delete(t)
  \/ FindLink(t) \/ LockLink(t) \/ NewLink(t)
  \/ ReadLink(t) \/ CheckEntitled(t) \/ Sit(t)

=============================================================================
