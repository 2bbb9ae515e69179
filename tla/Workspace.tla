----------------------------- MODULE Workspace -----------------------------
(***************************************************************************)
(* Requests about one workspace and its users' conversations, in progress  *)
(* together: the handlers of Conversations and Memberships step by step on *)
(* the tables of Database.                                                 *)
(***************************************************************************)
EXTENDS Memberships

CONSTANT Scenes   \* bound: by name, the tables at first, the requests the
                  \* clients send, and how many are in progress at once

VARIABLE scene    \* the name of one of Scenes

Here == Scenes[scene]

\* What holds of the tables besides the constraints of the triggers: rows
\* refer to rows (foreign keys), and links belong to conversations that may
\* have them.
References(v) ==
  /\ \A c \in Conversation, u \in User : v[Seat(c, u)] => MembersOnly(v, c)
  /\ \A p \in Couple : v[Pair(p)] # None => MembersOnly(v, v[Pair(p)])
  /\ \A l \in Link : v[Share(l)].conv # None => Mutable(v, v[Share(l)].conv)

Constraints(v) ==
  /\ HasOwner(v)
  /\ \A c \in Conversation : Peopled(v, c) /\ PairIntact(v, c)
  /\ \A c \in Conversation, u \in User : MaySit(v, c, u)

\* conversation_invites_one_active_per_conversation: at most one active link.
LinksUnique(v) == \A c \in Conversation : \A l, m \in ActiveLinks(v, c) : l = m

\* A global conversation that never had a link is the one of its pair, and its
\* participants are the two.
DirectOfPairs(v) == \A c \in Conversation :
  (v[Conv(c)].scope = "global" /\ \A l \in Link : v[Share(l)].conv # c) =>
    \E p \in Couple : v[Pair(p)] = c /\ People(v, c) = p

ASSUME ScenesAssumption == \A s \in DOMAIN Scenes :
  /\ IsTables(Scenes[s].start) /\ References(Scenes[s].start) /\ Constraints(Scenes[s].start)
  /\ LinksUnique(Scenes[s].start) /\ DirectOfPairs(Scenes[s].start)
  /\ Scenes[s].commands \subseteq ConversationCommands \cup MembershipCommands
ASSUME NoneAssumption ==
  None \notin User \cup Conversation \cup Link \cup Invite /\ Anyone \notin User \cup {None}

-----------------------------------------------------------------------------
Init ==
  /\ scene \in DOMAIN Scenes
  /\ db = Here.start
  /\ tx = [t \in Request |-> Idle]
  /\ raced = FALSE

Arrive(t) ==
  /\ Cardinality({o \in Request : tx[o] # Idle}) < Here.atOnce
  /\ \E do \in Here.commands : ConversationRequest(t, do) \/ MembershipRequest(t, do)

Next == UNCHANGED scene /\ \E t \in Request :
  Arrive(t) \/ ConversationStep(t) \/ MembershipStep(t) \/ RunCheck(t) \/ Commit(t) \/ Abort(t)

Spec == Init /\ [][Next]_<<vars, scene>>

-----------------------------------------------------------------------------
Doing(t, op) == tx[t] # Idle /\ tx[t].do.op = op

Step ==
  {"idle", "look up", "insert", "members", "add", "count people", "delete",
   "find link", "lock link", "new link", "link", "entitled", "sit",
   "insert invite", "invite", "membership", "create membership", "accept",
   "lock member", "update", "list rooms", "leave rooms", "done", "check"}

\* Type invariant; a transaction locks what it writes.
TypeOK ==
  /\ IsTables(db)
  /\ raced \in BOOLEAN
  /\ \A t \in Request :
       /\ tx[t].pc \in Step
       /\ tx[t].do \in Here.commands \cup {None}
       /\ tx[t].seen \in MemberRow \cup {None}
       /\ tx[t].todo \subseteq User \cup Conversation \cup Link
       /\ DOMAIN tx[t].writes \subseteq tx[t].locks /\ tx[t].locks \subseteq Row
       /\ IsTables(View(t))
       /\ tx[t].told \subseteq Row
       /\ tx[t].due \subseteq Check

\* The triggers keep their constraints (an owner, no empty members-only
\* conversation, private conversations of active members, pairs of two)
\* whatever the handlers do, unless changes are committed between another
\* transaction's first check and its commit.
ConstraintsUnlessRaced == raced \/ Constraints(db)

\* The handlers' own checks are enough when requests come one at a time: no
\* trigger ever fails, so a refusal is a conflict and not an internal error.
NoCheckFails == Here.atOnce = 1 =>
  \A t \in Request : \A k \in tx[t].due :
    tx[t].pc \in {"done", "check"} => Passes(View(t), k)

\* A conversation has at most one active share link.
OneActiveLink == LinksUnique(db)

\* Two users have one direct conversation, whichever of them asks for it and
\* when: a global conversation that never had a link is the one of its pair,
\* and its participants are the two.
OneDirectEach == DirectOfPairs(db)

\* Whoever joins by a link takes the seat while the link is active, however
\* the link is rotated meanwhile.
JoinsUseLiveLinks == [][\A t \in Request :
  (Doing(t, "join") /\ Commit(t)) => db[Share(tx[t].do.link)].active]_vars

\* A change of a member leaves what the request does not name as it was
\* committed last: no concurrent change of the same member is undone.
PatchKeepsTheRest == [][\A t \in Request :
  (Doing(t, "patchMember") /\ Commit(t)) =>
    LET m == Member(tx[t].do.user)
    IN /\ tx[t].do.role = "same"   => db'[m].role = db[m].role
       /\ tx[t].do.status = "same" => db'[m].status = db[m].status]_vars

\* Each member, conversation or participant row that a commit changes has its
\* internal event in the same transaction, and no participant event is for
\* nothing.
ChangesTold == [][\A t \in Request : Commit(t) =>
  /\ \A u \in User : db'[Member(u)] # db[Member(u)] => Member(u) \in tx[t].told
  /\ \A c \in Conversation : db'[Conv(c)] # db[Conv(c)] => Conv(c) \in tx[t].told
  /\ \A c \in Conversation, u \in User :
       db'[Seat(c, u)] # db[Seat(c, u)] <=> Seat(c, u) \in tx[t].told]_vars

-----------------------------------------------------------------------------
(* What the documentation says and the code does not keep.                 *)

\* docs/SPEC.md:675: at least one active owner exists for the workspace.
AlwaysAnOwner == HasOwner(db)

=============================================================================
