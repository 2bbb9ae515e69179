--------------------------- MODULE WorkspaceProofs ---------------------------
(***************************************************************************)
(* What holds of Workspace for any users, conversations, links, invites,   *)
(* scenes and numbers of requests.                                         *)
(***************************************************************************)
EXTENDS Workspace, FiniteSetTheorems, TLAPS

-----------------------------------------------------------------------------
(* Rows, and tables under what a transaction has written.                  *)

\* A row names its table and its key.
LEMMA RowKeys ==
  /\ \A u : Member(u)[1] = "member" /\ Member(u)[2] = u
  /\ \A c : Conv(c)[1] = "conversation" /\ Conv(c)[2] = c
  /\ \A c, u : Seat(c, u)[1] = "participant" /\ Seat(c, u)[2] = c /\ Seat(c, u)[3] = u
  /\ \A p : Pair(p)[1] = "pair" /\ Pair(p)[2] = p
  /\ \A l : Share(l)[1] = "link" /\ Share(l)[2] = l
  /\ \A i : Asked(i)[1] = "invite" /\ Asked(i)[2] = i
BY DEF Member, Conv, Seat, Pair, Share, Asked

\* The rows of the tables.
LEMMA RowsOfTables ==
  /\ \A u \in User : Member(u) \in Row
  /\ \A c \in Conversation : Conv(c) \in Row
  /\ \A c \in Conversation, u \in User : Seat(c, u) \in Row
  /\ \A p \in Couple : Pair(p) \in Row
  /\ \A l \in Link : Share(l) \in Row
  /\ \A i \in Invite : Asked(i) \in Row
BY DEF Row

LEMMA RowCases ==
  ASSUME NEW r \in Row
  PROVE  \/ \E u \in User : r = Member(u)
         \/ \E c \in Conversation : r = Conv(c)
         \/ \E c \in Conversation, u \in User : r = Seat(c, u)
         \/ \E p \in Couple : r = Pair(p)
         \/ \E l \in Link : r = Share(l)
         \/ \E i \in Invite : r = Asked(i)
BY DEF Row

LEMMA OnlyOne ==
  ASSUME NEW r, NEW b
  PROVE  DOMAIN Only(r, b) = {r} /\ Only(r, b)[r] = b
BY DEF Only

LEMMA OverlayValue ==
  ASSUME NEW w, NEW v
  PROVE  /\ DOMAIN Overlay(w, v) = DOMAIN w \cup DOMAIN v
         /\ \A r \in DOMAIN w : Overlay(w, v)[r] = w[r]
         /\ \A r \in DOMAIN v : r \notin DOMAIN w => Overlay(w, v)[r] = v[r]
         /\ \A r \in DOMAIN Overlay(w, v) :
              \/ r \in DOMAIN w /\ Overlay(w, v)[r] = w[r]
              \/ r \notin DOMAIN w /\ r \in DOMAIN v /\ Overlay(w, v)[r] = v[r]
BY DEF Overlay

\* What a row may hold, and what a transaction may have written.
Cell    == MemberRow \cup ConvRow \cup BOOLEAN \cup Conversation \cup {None} \cup ShareRow \cup AskedRow
Written == UNION {[R -> Cell] : R \in SUBSET Row}

LEMMA WrittenIs ==
  ASSUME NEW w
  PROVE  w \in Written <=> /\ w = [r \in DOMAIN w |-> w[r]]
                           /\ DOMAIN w \subseteq Row /\ \A r \in DOMAIN w : w[r] \in Cell
<1>1. ASSUME w \in Written
      PROVE  /\ w = [r \in DOMAIN w |-> w[r]]
             /\ DOMAIN w \subseteq Row /\ \A r \in DOMAIN w : w[r] \in Cell
  <2>1. PICK R \in SUBSET Row : w \in [R -> Cell]  BY <1>1 DEF Written
  <2> QED  BY <2>1
<1>2. ASSUME w = [r \in DOMAIN w |-> w[r]], DOMAIN w \subseteq Row, \A r \in DOMAIN w : w[r] \in Cell
      PROVE  w \in Written
  <2>1. w \in [DOMAIN w -> Cell]  BY <1>2
  <2>2. DOMAIN w \in SUBSET Row  BY <1>2
  <2> QED  BY <2>1, <2>2 DEF Written
<1> QED  BY <1>1, <1>2

\* The values a transaction writes are those of their tables.
Fits(w) ==
  /\ \A u \in User : Member(u) \in DOMAIN w => w[Member(u)] \in MemberRow
  /\ \A c \in Conversation : Conv(c) \in DOMAIN w => w[Conv(c)] \in ConvRow
  /\ \A c \in Conversation, u \in User : Seat(c, u) \in DOMAIN w => w[Seat(c, u)] \in BOOLEAN
  /\ \A p \in Couple : Pair(p) \in DOMAIN w => w[Pair(p)] \in Conversation \cup {None}
  /\ \A l \in Link : Share(l) \in DOMAIN w => w[Share(l)] \in ShareRow
  /\ \A i \in Invite : Asked(i) \in DOMAIN w => w[Asked(i)] \in AskedRow

LEMMA OverlayWritten ==
  ASSUME NEW w \in Written, NEW z \in Written
  PROVE  Overlay(w, z) \in Written
<1> DEFINE o == Overlay(w, z)
<1>1. DOMAIN o = DOMAIN w \cup DOMAIN z  BY OverlayValue
<1>2. o = [r \in DOMAIN o |-> o[r]]  BY <1>1 DEF Overlay
<1>3. /\ DOMAIN w \subseteq Row /\ \A r \in DOMAIN w : w[r] \in Cell
      /\ DOMAIN z \subseteq Row /\ \A r \in DOMAIN z : z[r] \in Cell
  <2>1. w \in Written /\ z \in Written  OBVIOUS
  <2> QED  BY <2>1, WrittenIs
<1>4. \A r \in DOMAIN o : (r \in DOMAIN w /\ o[r] = w[r]) \/ (r \in DOMAIN z /\ o[r] = z[r])
  BY DEF Overlay
<1> HIDE DEF o
<1>5. DOMAIN o \subseteq Row /\ \A r \in DOMAIN o : o[r] \in Cell  BY <1>1, <1>3, <1>4
<1>6. o \in Written  BY <1>2, <1>5, WrittenIs
<1> QED  BY <1>6 DEF o

LEMMA OverlayFits ==
  ASSUME NEW w, NEW z, Fits(w), Fits(z)
  PROVE  Fits(Overlay(w, z))
<1> DEFINE o == Overlay(w, z)
<1>1. \A r \in DOMAIN o : (r \in DOMAIN w /\ o[r] = w[r]) \/ (r \in DOMAIN z /\ o[r] = z[r])
  BY DEF Overlay
<1> HIDE DEF o
<1>2. Fits(o)  BY <1>1 DEF Fits
<1> QED  BY <1>2 DEF o

LEMMA OverlayTables ==
  ASSUME NEW w, NEW v, Fits(w), DOMAIN w \subseteq Row, IsTables(v)
  PROVE  IsTables(Overlay(w, v))
<1> DEFINE o == Overlay(w, v)
<1>1. DOMAIN o = Row  BY DEF IsTables, Overlay
<1>2. \A r \in DOMAIN o : (r \in DOMAIN w /\ o[r] = w[r]) \/ o[r] = v[r]  BY DEF Overlay
<1> HIDE DEF o
<1>3. IsTables(o)  BY <1>1, <1>2, RowsOfTables DEF Fits, IsTables
<1> QED  BY <1>3 DEF o

LEMMA OnlyWritten ==
  ASSUME NEW r \in Row, NEW b \in Cell
  PROVE  Only(r, b) \in Written
<1>1. Only(r, b) = [s \in DOMAIN Only(r, b) |-> Only(r, b)[s]]  BY DEF Only
<1>2. DOMAIN Only(r, b) = {r} /\ Only(r, b)[r] = b  BY OnlyOne
<1> HIDE DEF Only
<1>3. DOMAIN Only(r, b) \subseteq Row /\ \A s \in DOMAIN Only(r, b) : Only(r, b)[s] \in Cell  BY <1>2
<1> QED  BY <1>1, <1>3, WrittenIs

LEMMA NoRowsWritten == NoRows \in Written /\ DOMAIN NoRows = {} /\ Fits(NoRows)
<1>1. DOMAIN NoRows = {} /\ NoRows = [r \in DOMAIN NoRows |-> NoRows[r]]  BY DEF NoRows
<1> QED  BY <1>1, WrittenIs DEF Fits

\* The checks of more rows are among those of each.
LEMMA DueOfBoth ==
  ASSUME NEW w, NEW z
  PROVE  Due(Overlay(w, z)) \subseteq Due(w) \cup Due(z)
<1> DEFINE o == Overlay(w, z)
<1>1. \A r \in DOMAIN o : (r \in DOMAIN w /\ o[r] = w[r]) \/ (r \in DOMAIN z /\ o[r] = z[r])
  BY DEF Overlay
<1> HIDE DEF o
<1>2. Due(o) \subseteq Due(w) \cup Due(z)  BY <1>1 DEF Due
<1> QED  BY <1>2 DEF o

LEMMA DueChecks ==
  ASSUME NEW w
  PROVE  Due(w) \subseteq Check
BY DEF Due, Check

-----------------------------------------------------------------------------
(***************************************************************************)
(* The inductive invariant.  It speaks of each transaction x over the      *)
(* committed tables v: what its writes are, what it has locked, and what   *)
(* it has read that is still so, because a row it depends on is locked or  *)
(* never changes again.                                                    *)
(***************************************************************************)

Command == ConversationCommands \cup MembershipCommands

TxType ==
  [pc : Step, do : Command \cup {None}, seen : MemberRow \cup {None},
   todo : SUBSET (User \cup Conversation \cup Link), writes : Written,
   locks : SUBSET Row, told : SUBSET Row, due : SUBSET Check]

\* At most one of the links of a conversation is active.
OneLive(v) == \A c \in Conversation, l, m \in Link :
  (v[Share(l)].active /\ v[Share(l)].conv = c /\ v[Share(m)].active /\ v[Share(m)].conv = c) => l = m

PairsAreGlobal(v) == \A p \in Couple : v[Pair(p)] # None => v[Conv(v[Pair(p)])].scope = "global"

TablesOK(v) == IsTables(v) /\ References(v) /\ PairsAreGlobal(v) /\ OneLive(v) /\ DirectOfPairs(v)

\* The rows w written by one transaction, those told, over the tables v.
NewRoom(w, c) == Conv(c) \in DOMAIN w /\ w[Conv(c)].scope \in {"global", "private"}

MembersTold(w, told) == \A u \in User : Member(u) \in DOMAIN w => Member(u) \in told

\* A conversation is written when it is new, and comes with its link or pair.
NewConvs(w, told, v) == \A c \in Conversation : Conv(c) \in DOMAIN w =>
  /\ v[Conv(c)].scope = "none" /\ w[Conv(c)].scope # "none" /\ Conv(c) \in told
  /\ w[Conv(c)].scope = "global" =>
       \/ \E l \in Link : Share(l) \in DOMAIN w /\ w[Share(l)].conv = c
       \/ \E p \in Couple : Pair(p) \in DOMAIN w /\ w[Pair(p)] = c

\* A participant row is written to change it, in a conversation that is new or
\* may change, and no other one is told.
SeatsChange(w, told, v) == \A c \in Conversation, u \in User :
  /\ Seat(c, u) \in DOMAIN w => /\ w[Seat(c, u)] = ~v[Seat(c, u)]
                                /\ Mutable(v, c) \/ NewRoom(w, c)
  /\ Seat(c, u) \in DOMAIN w <=> Seat(c, u) \in told

\* A pair is written with the conversation that is its own.
NewPairs(w, v) == \A p \in Couple : Pair(p) \in DOMAIN w =>
  /\ v[Pair(p)] = None /\ w[Pair(p)] \in Conversation
  /\ Conv(w[Pair(p)]) \in DOMAIN w /\ w[Conv(w[Pair(p)])].scope = "global"
  /\ \A u \in User : Seat(w[Pair(p)], u) \in DOMAIN w <=> u \in p
  /\ \A l \in Link : Share(l) \in DOMAIN w => w[Share(l)].conv # w[Pair(p)]

\* A link is new, or active and revoked.
LinksTurn(w, v) == \A l \in Link : Share(l) \in DOMAIN w =>
  /\ w[Share(l)].conv \in Conversation
  /\ \/ /\ v[Share(l)].conv = None /\ w[Share(l)].active
        /\ Mutable(v, w[Share(l)].conv) \/ NewRoom(w, w[Share(l)].conv)
     \/ v[Share(l)].active /\ v[Share(l)].conv = w[Share(l)].conv /\ ~w[Share(l)].active

InvitesTurn(w, v) == \A i \in Invite : Asked(i) \in DOMAIN w =>
  w[Asked(i)].to # None /\ v[Asked(i)].to \in {None, w[Asked(i)].to}

RowsOK(w, told, v) ==
  /\ MembersTold(w, told) /\ NewConvs(w, told, v) /\ SeatsChange(w, told, v)
  /\ NewPairs(w, v) /\ LinksTurn(w, v) /\ InvitesTurn(w, v)
  /\ OneLive(Overlay(w, v))

\* What is written is locked; a row that is locked has been written or exists.
LocksOK(w, locks, v) ==
  /\ DOMAIN w \subseteq locks
  /\ \A c \in Conversation : Conv(c) \in locks => Conv(c) \in DOMAIN w
  /\ \A c \in Conversation, u \in User : Seat(c, u) \in locks => Seat(c, u) \in DOMAIN w
  /\ \A l \in Link : Share(l) \in locks => Share(l) \in DOMAIN w \/ v[Share(l)].conv # None
  /\ \A i \in Invite : Asked(i) \in locks => Asked(i) \in DOMAIN w \/ v[Asked(i)].to # None

\* The handler whose step it is.
OpOfStep(x) ==
  /\ x.pc \in {"look up", "insert"} => x.do.op = "createConversation"
  /\ x.pc \in {"members", "add"} => x.do.op = "addParticipants"
  /\ x.pc \in {"count people", "delete"} => x.do.op = "deleteParticipant"
  /\ x.pc \in {"find link", "lock link", "new link"} => x.do.op \in {"getShareLink", "rotateShareLink"}
  /\ x.pc \in {"link", "entitled", "sit"} => x.do.op = "join"
  /\ x.pc = "insert invite" => x.do.op = "createInvite"
  /\ x.pc \in {"invite", "membership", "create membership", "accept"} => x.do.op = "acceptInvite"
  /\ x.pc \in {"lock member", "update", "list rooms", "leave rooms"} => x.do.op = "patchMember"

Returned == {"done", "check"}

\* What has been written when the step comes.
WrittenBy(x) ==
  /\ x.pc \notin {"add", "new link", "accept", "list rooms", "leave rooms"} \cup Returned => x.writes = NoRows
  /\ x.pc = "add" => \A r \in DOMAIN x.writes : \E u \in User : r = Seat(x.do.conv, u) /\ x.writes[r] = TRUE
  /\ x.pc = "new link" => \A r \in DOMAIN x.writes : \E l \in Link : r = Share(l)
  /\ x.pc = "accept" => DOMAIN x.writes \subseteq {Member(x.do.by)}
  /\ x.pc = "list rooms" => DOMAIN x.writes \subseteq {Member(x.do.user)}
  /\ x.pc = "leave rooms" => \A r \in DOMAIN x.writes :
       r = Member(x.do.user) \/ \E c \in Conversation : r = Seat(c, x.do.user) /\ x.writes[r] = FALSE

\* What a handler has read and relies on is still so.
StillSo(x, v) ==
  /\ x.pc \in {"members", "add", "count people", "delete", "find link", "lock link", "new link"} =>
       Mutable(v, x.do.conv)
  /\ x.pc = "add" => x.todo \subseteq User
  /\ x.pc = "lock link" => \A l \in x.todo : l \in Link /\ v[Share(l)].conv = x.do.conv
  /\ x.pc \in {"entitled", "sit"} \/ (x.pc \in Returned /\ x.do.op = "join") =>
       Share(x.do.link) \in x.locks /\ v[Share(x.do.link)].active
  /\ x.pc \in {"membership", "create membership", "accept"} =>
       Asked(x.do.invite) \in x.locks /\ v[Asked(x.do.invite)].to # None
  /\ x.pc = "update" \/ (x.pc \in {"list rooms", "leave rooms"} \cup Returned /\ x.do.op = "patchMember") =>
       /\ Member(x.do.user) \in x.locks
       /\ x.seen = v[Member(x.do.user)] /\ x.seen.status # "none"
  /\ x.pc \in {"list rooms", "leave rooms"} \cup Returned /\ x.do.op = "patchMember" =>
       Member(x.do.user) \in DOMAIN x.writes /\ x.writes[Member(x.do.user)] = Patched(x.do, x.seen)
  /\ x.pc = "leave rooms" => \A c \in x.todo : c \in Conversation /\ v[Conv(c)].scope = "private"

\* No deferred check is left out.
ChecksQueued(x) == x.pc # "check" => Due(x.writes) \subseteq x.due

TxOK(x, v) ==
  /\ x \in TxType /\ Fits(x.writes)
  /\ x.pc = "idle" <=> x = Idle
  /\ x.pc # "idle" => x.do \in Command
  /\ RowsOK(x.writes, x.told, v) /\ LocksOK(x.writes, x.locks, v)
  /\ OpOfStep(x) /\ WrittenBy(x) /\ StillSo(x, v) /\ ChecksQueued(x)

\* No row is locked twice, and no two transactions write links of one conversation.
Apart(x, y) ==
  /\ x.locks \cap y.locks = {}
  /\ \A l, m \in Link : (Share(l) \in DOMAIN x.writes /\ Share(m) \in DOMAIN y.writes) =>
       x.writes[Share(l)].conv # y.writes[Share(m)].conv

Sound ==
  /\ scene \in DOMAIN Scenes /\ raced \in BOOLEAN
  /\ TablesOK(db)
  /\ tx \in [Request -> TxType]
  /\ \A t \in Request : TxOK(tx[t], db) /\ tx[t].do \in Here.commands \cup {None}
  /\ \A t, o \in Request : t # o => Apart(tx[t], tx[o])

-----------------------------------------------------------------------------
(* Commands, and links by their fields.                                    *)

LEMMA CommandFields ==
  ASSUME NEW do \in Command
  PROVE  /\ do.by \in User
         /\ do.op = "createConversation" => do.scope \in Scope /\ do.who \subseteq User
         /\ do.op = "addParticipants" => do.conv \in Conversation /\ do.who \subseteq User
         /\ do.op = "deleteParticipant" => do.conv \in Conversation /\ do.user \in User
         /\ do.op \in {"getShareLink", "rotateShareLink"} => do.conv \in Conversation
         /\ do.op = "join" => do.link \in Link
         /\ do.op = "createInvite" => do.to \in User \cup {Anyone}
         /\ do.op = "acceptInvite" => do.invite \in Invite
         /\ do.op = "patchMember" => /\ do.user \in User
                                     /\ do.role \in Role \cup {"same"} /\ do.status \in Status \cup {"same"}
<1>1. CASE do \in ConversationCommands  BY <1>1 DEF ConversationCommands
<1>2. CASE do \in MembershipCommands  BY <1>2 DEF MembershipCommands
<1> QED  BY <1>1, <1>2 DEF Command

LEMMA LinkFields ==
  ASSUME NEW v, NEW l \in Link, v[Share(l)] \in ShareRow
  PROVE  /\ v[Share(l)].active \in BOOLEAN /\ v[Share(l)].conv \in Conversation \cup {None}
         /\ v[Share(l)].active => v[Share(l)].conv \in Conversation
         /\ \A c : l \in ActiveLinks(v, c) <=> (v[Share(l)].active /\ v[Share(l)].conv = c)
<1> DEFINE x == v[Share(l)]
<1> HIDE DEF x
<1>1. x \in ShareRow  BY DEF x
<1>2. x.active \in BOOLEAN /\ x.conv \in Conversation \cup {None} /\ (x.active => x.conv \in Conversation)
  <2>1. CASE x \in [conv : Conversation, active : BOOLEAN]  BY <2>1
  <2>2. CASE x = [conv |-> None, active |-> FALSE]
    <3>1. x.conv = None /\ x.active = FALSE  BY <2>2
    <3> QED  BY <3>1
  <2> QED  BY <1>1, <2>1, <2>2 DEF ShareRow
<1>3. ASSUME NEW c, x.active, x.conv = c PROVE x = [conv |-> c, active |-> TRUE]
  <2>1. x \in [conv : Conversation, active : BOOLEAN]  BY <1>1, <1>3 DEF ShareRow
  <2>2. x.active = TRUE  BY <1>2, <1>3
  <2> QED  BY <2>1, <2>2, <1>3
<1>4. ASSUME NEW c, x = [conv |-> c, active |-> TRUE] PROVE x.active /\ x.conv = c
  BY <1>4
<1>5. \A c : l \in ActiveLinks(v, c) <=> x = [conv |-> c, active |-> TRUE]  BY DEF ActiveLinks, x
<1> QED  BY <1>2, <1>3, <1>4, <1>5 DEF x

LEMMA LiveLinks ==
  ASSUME NEW v, IsTables(v)
  PROVE  OneLive(v) <=> LinksUnique(v)
<1>1. \A l \in Link : /\ v[Share(l)].active \in BOOLEAN
                      /\ \A c : l \in ActiveLinks(v, c) <=> (v[Share(l)].active /\ v[Share(l)].conv = c)
  BY LinkFields DEF IsTables
<1>2. \A c : ActiveLinks(v, c) \subseteq Link  BY DEF ActiveLinks
<1> QED  BY <1>1, <1>2 DEF OneLive, LinksUnique

LEMMA IdleFields ==
  /\ Idle.pc = "idle" /\ Idle.do = None /\ Idle.writes = NoRows /\ Idle.locks = {} /\ Idle.told = {}
  /\ Idle.due = {} /\ Idle.todo = {} /\ Idle.seen = None
  /\ Idle \in TxType
<1>1. /\ Idle.pc = "idle" /\ Idle.do = None /\ Idle.writes = NoRows /\ Idle.locks = {} /\ Idle.told = {}
      /\ Idle.due = {} /\ Idle.todo = {} /\ Idle.seen = None
  BY DEF Idle
<1>2. NoRows \in Written /\ "idle" \in Step  BY NoRowsWritten DEF Step
<1>3. Idle \in TxType  BY <1>2 DEF Idle, TxType
<1> QED  BY <1>1, <1>3

\* A transaction that has written nothing sees the committed tables.
LEMMA UnwrittenOK ==
  ASSUME NEW v, TablesOK(v), NEW w, w = NoRows
  PROVE  /\ DOMAIN w = {} /\ Fits(w) /\ w \in Written /\ Due(w) = {}
         /\ \A r \in Row : Overlay(w, v)[r] = v[r]
         /\ RowsOK(w, {}, v)
<1>1. DOMAIN w = {} /\ Fits(w) /\ w \in Written  BY NoRowsWritten
<1>2. \A r \in Row : Overlay(w, v)[r] = v[r]  BY <1>1 DEF Overlay, TablesOK, IsTables
<1>3. OneLive(Overlay(w, v))  BY <1>2, RowsOfTables DEF OneLive, TablesOK
<1>4. RowsOK(w, {}, v)
  BY <1>1, <1>3 DEF RowsOK, MembersTold, NewConvs, SeatsChange, NewPairs, LinksTurn, InvitesTurn
<1>5. Due(w) = {}  BY <1>1 DEF Due
<1> QED  BY <1>1, <1>2, <1>4, <1>5

LEMMA IdleOK ==
  ASSUME NEW v, TablesOK(v)
  PROVE  TxOK(Idle, v)
<1>1. LocksOK(Idle.writes, Idle.locks, v)  BY IdleFields, UnwrittenOK DEF LocksOK
<1>2. RowsOK(Idle.writes, Idle.told, v) /\ Fits(Idle.writes) /\ Due(Idle.writes) = {}  BY IdleFields, UnwrittenOK
<1>3. OpOfStep(Idle) /\ WrittenBy(Idle) /\ StillSo(Idle, v) /\ ChecksQueued(Idle)
  BY IdleFields, <1>2 DEF OpOfStep, WrittenBy, StillSo, ChecksQueued, Returned
<1> QED  BY IdleFields, <1>1, <1>2, <1>3 DEF TxOK

LEMMA InitSound == Init => Sound
<1> SUFFICES ASSUME Init PROVE Sound  OBVIOUS
<1>1. scene \in DOMAIN Scenes /\ raced = FALSE /\ db = Here.start
      /\ tx = [t \in Request |-> Idle]
  BY DEF Init
<1>2. IsTables(db) /\ References(db) /\ Constraints(db) /\ LinksUnique(db) /\ DirectOfPairs(db)
  BY <1>1, ScenesAssumption DEF Here
<1>3. TablesOK(db)
  <2>1. ASSUME NEW p \in Couple, db[Pair(p)] # None PROVE db[Conv(db[Pair(p)])].scope = "global"
    <3>1. db[Pair(p)] \in Conversation  BY <1>2, <2>1 DEF IsTables
    <3>2. IsDM(db, db[Pair(p)])  BY DEF IsDM
    <3> QED  BY <1>2, <3>1, <3>2 DEF Constraints, PairIntact
  <2> QED  BY <1>2, <2>1, LiveLinks DEF TablesOK, PairsAreGlobal
<1>4. \A t \in Request : tx[t] = Idle  BY <1>1
<1>5. \A t \in Request : TxOK(tx[t], db) /\ tx[t].do \in Here.commands \cup {None}
  BY <1>3, <1>4, IdleOK, IdleFields
<1>6. \A t, o \in Request : Apart(tx[t], tx[o])  BY <1>4, IdleFields, NoRowsWritten DEF Apart
<1>7. tx \in [Request -> TxType]  BY <1>1, IdleFields
<1> QED  BY <1>1, <1>3, <1>5, <1>6, <1>7 DEF Sound

-----------------------------------------------------------------------------
(* How a statement of a transaction leaves the invariant: it ends the      *)
(* transaction, it reads, or it writes.                                    *)

\* The others keep their transactions, the tables stay.
LEMMA OneMoves ==
  ASSUME Sound, NEW t \in Request, NEW y, Becomes(t, y), UNCHANGED scene,
         TxOK(y, db), y.do \in Here.commands \cup {None},
         \A o \in Request \ {t} : Apart(y, tx[o])
  PROVE  Sound'
<1>1. /\ db' = db /\ raced' = raced /\ scene' = scene /\ tx' = [tx EXCEPT ![t] = y]
      /\ Here' = Here
  BY DEF Becomes, Here
<1>2. tx \in [Request -> TxType] /\ y \in TxType  BY DEF Sound, TxOK
<1>3. tx'[t] = y /\ \A o \in Request \ {t} : tx'[o] = tx[o]  BY <1>1, <1>2
<1>4. tx' \in [Request -> TxType]  BY <1>1, <1>2
<1>5. \A o \in Request : TxOK(tx'[o], db) /\ tx'[o].do \in Here.commands \cup {None}
  BY <1>3 DEF Sound
<1>6. \A o, p \in Request : o # p => Apart(tx'[o], tx'[p])
  <2>1. \A o \in Request \ {t} : Apart(tx[o], y)
    <3>1. \A o \in Request \ {t} : Apart(y, tx[o])  OBVIOUS
    <3> QED  BY <3>1 DEF Apart
  <2> QED  BY <1>3, <2>1 DEF Sound
<1> QED  BY <1>1, <1>4, <1>5, <1>6 DEF Sound

LEMMA RollbackKeeps ==
  ASSUME Sound, NEW t \in Request, Rollback(t), UNCHANGED scene
  PROVE  Sound'
<1>1. TxOK(Idle, db) /\ Idle.do \in Here.commands \cup {None}  BY IdleOK, IdleFields DEF Sound
<1>2. \A o \in Request \ {t} : Apart(Idle, tx[o])  BY IdleFields, NoRowsWritten DEF Apart
<1> QED  BY <1>1, <1>2, OneMoves DEF Rollback

\* A statement that writes nothing; it may lock rows no one else holds.
LEMMA ReadKeeps ==
  ASSUME Sound, NEW t \in Request, NEW y \in TxType, Becomes(t, y), UNCHANGED scene,
         y.writes = tx[t].writes, y.told = tx[t].told, y.due = tx[t].due, y.do = tx[t].do,
         tx[t].pc \notin {"idle", "check"}, y.pc \notin {"idle", "check"},
         LocksOK(y.writes, y.locks, db), \A r \in y.locks : r \in tx[t].locks \/ Free(t, r),
         OpOfStep(y), WrittenBy(y), StillSo(y, db)
  PROVE  Sound'
<1>1. TxOK(tx[t], db) /\ tx[t].do \in Here.commands \cup {None}  BY DEF Sound
<1>2. ChecksQueued(y)  BY <1>1 DEF TxOK, ChecksQueued
<1>3. y # Idle  BY IdleFields
<1>4. TxOK(y, db)  BY <1>1, <1>2, <1>3 DEF TxOK
<1>5. ASSUME NEW o \in Request \ {t} PROVE Apart(y, tx[o])
  <2>1. Apart(tx[t], tx[o])  BY DEF Sound
  <2>2. \A r \in y.locks : r \notin tx[o].locks  BY <2>1 DEF Apart, Free, Others
  <2> QED  BY <2>1, <2>2 DEF Apart
<1> QED  BY <1>1, <1>4, <1>5, OneMoves

\* A statement that writes the rows w, which no one else holds.
LEMMA WriteKeeps ==
  ASSUME Sound, NEW t \in Request, NEW y \in TxType, Becomes(t, y), UNCHANGED scene,
         NEW w \in Written, Fits(w),
         y.writes = Overlay(w, tx[t].writes), y.locks = tx[t].locks \cup DOMAIN w,
         y.due = tx[t].due \cup Due(w), y.do = tx[t].do,
         tx[t].pc \notin {"idle", "check"}, y.pc \notin {"idle", "check"},
         RowsOK(y.writes, y.told, db), \A r \in DOMAIN w : Free(t, r),
         \A l, m \in Link, o \in Request \ {t} :
           (Share(l) \in DOMAIN w /\ Share(m) \in DOMAIN tx[o].writes) =>
             w[Share(l)].conv # tx[o].writes[Share(m)].conv,
         OpOfStep(y), WrittenBy(y), StillSo(y, db)
  PROVE  Sound'
<1>1. TxOK(tx[t], db) /\ tx[t].do \in Here.commands \cup {None}  BY DEF Sound
<1>2. /\ DOMAIN y.writes = DOMAIN w \cup DOMAIN tx[t].writes
      /\ \A r \in DOMAIN y.writes : \/ r \in DOMAIN w /\ y.writes[r] = w[r]
                                    \/ r \notin DOMAIN w /\ r \in DOMAIN tx[t].writes /\ y.writes[r] = tx[t].writes[r]
  BY DEF Overlay
<1>3. ChecksQueued(y)  BY <1>1, DueOfBoth DEF TxOK, ChecksQueued
<1>4. y # Idle  BY IdleFields
<1>5. Fits(y.writes)  BY <1>1, OverlayFits DEF TxOK
<1>6. LocksOK(y.writes, y.locks, db)  BY <1>1, <1>2 DEF TxOK, LocksOK
<1>7. TxOK(y, db)  BY <1>1, <1>3, <1>4, <1>5, <1>6 DEF TxOK
<1>8. ASSUME NEW o \in Request \ {t} PROVE Apart(y, tx[o])
  <2>1. Apart(tx[t], tx[o])  BY DEF Sound
  <2>2. y.locks \cap tx[o].locks = {}  BY <2>1 DEF Apart, Free, Others
  <2>3. ASSUME NEW l \in Link, NEW m \in Link, Share(l) \in DOMAIN y.writes, Share(m) \in DOMAIN tx[o].writes
        PROVE  y.writes[Share(l)].conv # tx[o].writes[Share(m)].conv
    BY <1>2, <2>1, <2>3 DEF Apart
  <2> QED  BY <2>2, <2>3 DEF Apart
<1> QED  BY <1>1, <1>7, <1>8, OneMoves

LEMMA TxFields ==
  ASSUME Sound, NEW t \in Request
  PROVE  /\ tx[t] \in TxType /\ TxOK(tx[t], db)
         /\ tx[t].do \in Here.commands \cup {None}
         /\ tx[t].pc # "idle" => tx[t].do \in Command
BY DEF Sound, TxOK

FirstSteps == {"look up", "insert", "members", "count people", "find link", "link",
               "insert invite", "invite", "lock member"}

LEMMA BeginKeeps ==
  ASSUME Sound, NEW t \in Request, UNCHANGED scene,
         NEW do \in Here.commands, NEW pc \in FirstSteps, Begin(t, do, pc),
         pc \in {"look up", "insert"} => do.op = "createConversation",
         pc = "members" => do.op = "addParticipants",
         pc = "count people" => do.op = "deleteParticipant",
         pc = "find link" => do.op \in {"getShareLink", "rotateShareLink"},
         pc = "link" => do.op = "join",
         pc = "insert invite" => do.op = "createInvite",
         pc = "invite" => do.op = "acceptInvite",
         pc = "lock member" => do.op = "patchMember",
         pc \in {"members", "count people", "find link"} => Mutable(db, do.conv)
  PROVE  Sound'
<1> DEFINE y == [Idle EXCEPT !.do = do, !.pc = pc]
<1>1. do \in Command  BY ScenesAssumption DEF Sound, Here, Command
<1>2. /\ y \in TxType /\ y.pc = pc /\ y.do = do /\ y.writes = NoRows /\ y.locks = {} /\ y.told = {}
      /\ y.due = {} /\ y.todo = {} /\ y.seen = None
  BY <1>1, IdleFields DEF TxType, FirstSteps, Step
<1>3. Becomes(t, y)  BY DEF Begin
<1> HIDE DEF y
<1>4. /\ DOMAIN y.writes = {} /\ Fits(y.writes) /\ Due(y.writes) = {} /\ RowsOK(y.writes, y.told, db)
  BY <1>2, UnwrittenOK DEF Sound
<1>5. LocksOK(y.writes, y.locks, db)  BY <1>2, <1>4 DEF LocksOK
<1>6. OpOfStep(y) /\ WrittenBy(y) /\ StillSo(y, db) /\ ChecksQueued(y)
  BY <1>2, <1>4 DEF OpOfStep, WrittenBy, StillSo, ChecksQueued, Returned, FirstSteps
<1>7. TxOK(y, db)  BY <1>1, <1>2, <1>4, <1>5, <1>6, IdleFields DEF TxOK, FirstSteps
<1>8. \A o \in Request \ {t} : Apart(y, tx[o])  BY <1>2, <1>4 DEF Apart
<1> QED  BY <1>2, <1>3, <1>7, <1>8, OneMoves

LEMMA ArriveKeeps ==
  ASSUME Sound, NEW t \in Request, Arrive(t), UNCHANGED scene
  PROVE  Sound'
<1>1. PICK do \in Here.commands : ConversationRequest(t, do) \/ MembershipRequest(t, do)  BY DEF Arrive
<1>2. CASE CreateConversation(t, do)  BY <1>2, BeginKeeps DEF CreateConversation, FirstSteps
<1>3. CASE AddParticipants(t, do)  BY <1>3, BeginKeeps DEF AddParticipants, FirstSteps
<1>4. CASE DeleteParticipant(t, do)  BY <1>4, BeginKeeps DEF DeleteParticipant, FirstSteps
<1>5. CASE ShareLink(t, do)  BY <1>5, BeginKeeps DEF ShareLink, FirstSteps
<1>6. CASE JoinConversation(t, do)  BY <1>6, BeginKeeps DEF JoinConversation, FirstSteps
<1>7. CASE CreateInvite(t, do)  BY <1>7, BeginKeeps DEF CreateInvite, FirstSteps
<1>8. CASE AcceptInvite(t, do)  BY <1>8, BeginKeeps DEF AcceptInvite, FirstSteps
<1>9. CASE PatchMember(t, do)  BY <1>9, BeginKeeps DEF PatchMember, FirstSteps
<1> QED
  BY <1>1, <1>2, <1>3, <1>4, <1>5, <1>6, <1>7, <1>8, <1>9 DEF ConversationRequest, MembershipRequest

-----------------------------------------------------------------------------
(* The statements that only read.                                          *)

\* The next statement of the handler, nothing else changed.
LEMMA GotoKeeps ==
  ASSUME Sound, NEW t \in Request, NEW pc \in Step, Goto(t, pc), UNCHANGED scene,
         tx[t].pc \notin {"idle", "check"}, pc \notin {"idle", "check"},
         NEW y, y = [tx[t] EXCEPT !.pc = pc],
         OpOfStep(y), WrittenBy(y), StillSo(y, db)
  PROVE  Sound'
<1>1. /\ y \in TxType /\ y.writes = tx[t].writes /\ y.told = tx[t].told /\ y.due = tx[t].due
      /\ y.do = tx[t].do /\ y.locks = tx[t].locks /\ y.pc = pc
  BY TxFields DEF TxType
<1>2. LocksOK(y.writes, y.locks, db)  BY <1>1, TxFields DEF TxOK
<1>3. Becomes(t, y)  BY DEF Goto
<1> QED  BY <1>1, <1>2, <1>3, ReadKeeps

\* Steps after which there is nothing to know but who runs them.
LEMMA PlainGotoKeeps ==
  ASSUME Sound, NEW t \in Request, NEW pc \in {"insert", "done", "delete", "new link", "create membership"},
         Goto(t, pc), UNCHANGED scene,
         pc = "insert" => tx[t].pc = "look up",
         pc = "done" => tx[t].pc \in {"look up", "add", "leave rooms", "accept"},
         pc = "delete" => tx[t].pc = "count people",
         pc = "new link" => tx[t].pc \in {"find link", "lock link"},
         pc = "create membership" => tx[t].pc = "membership"
  PROVE  Sound'
<1> DEFINE y == [tx[t] EXCEPT !.pc = pc]
<1>1. tx[t] \in TxType /\ TxOK(tx[t], db) /\ pc \in Step  BY TxFields DEF Step
<1>2. /\ y.pc = pc /\ y.do = tx[t].do /\ y.writes = tx[t].writes /\ y.locks = tx[t].locks
      /\ y.todo = tx[t].todo /\ y.seen = tx[t].seen
  BY <1>1 DEF TxType
<1> HIDE DEF y
<1>3. DOMAIN NoRows = {}  BY NoRowsWritten
<1>4. OpOfStep(y)  BY <1>1, <1>2 DEF OpOfStep, TxOK
<1>5. WrittenBy(y)  BY <1>1, <1>2, <1>3 DEF WrittenBy, TxOK, Returned
<1>6. StillSo(y, db)  BY <1>1, <1>2 DEF StillSo, TxOK, Returned, OpOfStep
<1> QED  BY <1>1, <1>4, <1>5, <1>6, GotoKeeps DEF y

LEMMA LookUpKeeps ==
  ASSUME Sound, NEW t \in Request, LookUp(t), UNCHANGED scene
  PROVE  Sound'
BY RollbackKeeps, PlainGotoKeeps DEF LookUp, At

LEMMA CountPeopleKeeps ==
  ASSUME Sound, NEW t \in Request, CountPeople(t), UNCHANGED scene
  PROVE  Sound'
BY RollbackKeeps, PlainGotoKeeps DEF CountPeople, At

LEMMA CheckMembersKeeps ==
  ASSUME Sound, NEW t \in Request, CheckMembers(t), UNCHANGED scene
  PROVE  Sound'
<1> DEFINE y == [tx[t] EXCEPT !.todo = tx[t].do.who, !.pc = "add"]
<1>1. tx[t] \in TxType /\ TxOK(tx[t], db) /\ tx[t].pc = "members" /\ "add" \in Step
  BY TxFields DEF CheckMembers, At, Step
<1>2. tx[t].do.op = "addParticipants" /\ tx[t].do.who \subseteq User
  BY <1>1, TxFields, CommandFields DEF TxOK, OpOfStep
<1>3. /\ y.pc = "add" /\ y.do = tx[t].do /\ y.writes = tx[t].writes /\ y.locks = tx[t].locks
      /\ y.todo = tx[t].do.who /\ y.seen = tx[t].seen /\ y.told = tx[t].told /\ y.due = tx[t].due
      /\ y \in TxType
  BY <1>1, <1>2 DEF TxType
<1>4. CASE Becomes(t, y)
  <2> HIDE DEF y
  <2>1. OpOfStep(y)  BY <1>1, <1>2, <1>3 DEF OpOfStep, TxOK
  <2>2. WrittenBy(y)  BY <1>1, <1>3, NoRowsWritten DEF WrittenBy, TxOK, Returned
  <2>3. StillSo(y, db)  BY <1>1, <1>2, <1>3 DEF StillSo, TxOK, Returned
  <2>4. LocksOK(y.writes, y.locks, db)  BY <1>1, <1>3 DEF TxOK
  <2> QED  BY <1>1, <1>3, <1>4, <2>1, <2>2, <2>3, <2>4, ReadKeeps
<1>5. Rollback(t) \/ Becomes(t, y)  BY DEF CheckMembers
<1> QED  BY <1>4, <1>5, RollbackKeeps

LEMMA FindLinkKeeps ==
  ASSUME Sound, NEW t \in Request, FindLink(t), UNCHANGED scene
  PROVE  Sound'
<1> DEFINE found == ActiveLinks(View(t), tx[t].do.conv)
           pc    == IF found = {} THEN "new link" ELSE "lock link"
           y     == [tx[t] EXCEPT !.todo = found, !.pc = pc]
<1>1. tx[t] \in TxType /\ TxOK(tx[t], db) /\ tx[t].pc = "find link" /\ pc \in Step
  BY TxFields DEF FindLink, At, Step
<1>2. tx[t].do.op \in {"getShareLink", "rotateShareLink"} /\ tx[t].do.conv \in Conversation
  BY <1>1, TxFields, CommandFields DEF TxOK, OpOfStep
<1>3. found \subseteq Link  BY DEF ActiveLinks
<1>4. \A r \in Row : View(t)[r] = db[r]
  <2>1. tx[t].writes = NoRows  BY <1>1 DEF TxOK, WrittenBy, Returned
  <2> QED  BY <2>1, UnwrittenOK DEF View, Sound
<1>5. \A l \in found : db[Share(l)].conv = tx[t].do.conv
  <2>1. ASSUME NEW l \in Link PROVE l \in found => db[Share(l)].conv = tx[t].do.conv
    <3>1. View(t)[Share(l)] = db[Share(l)] /\ db[Share(l)] \in ShareRow
      BY <1>4, RowsOfTables DEF Sound, TablesOK, IsTables
    <3> QED  BY <3>1, LinkFields
  <2> QED  BY <1>3, <2>1
<1> HIDE DEF found
<1>6. pc \in {"new link", "lock link"}  OBVIOUS
<1>7. /\ y.pc = pc /\ y.do = tx[t].do /\ y.writes = tx[t].writes /\ y.locks = tx[t].locks
      /\ y.todo = found /\ y.seen = tx[t].seen /\ y.told = tx[t].told /\ y.due = tx[t].due
      /\ y \in TxType
  BY <1>1, <1>3 DEF TxType
<1>8. Becomes(t, y)  BY DEF FindLink, found
<1> HIDE DEF pc, y
<1>9. OpOfStep(y)  BY <1>2, <1>6, <1>7 DEF OpOfStep
<1>10. WrittenBy(y)  BY <1>1, <1>6, <1>7, NoRowsWritten DEF WrittenBy, TxOK, Returned
<1>11. StillSo(y, db)  BY <1>1, <1>3, <1>5, <1>6, <1>7 DEF StillSo, TxOK, Returned
<1>12. LocksOK(y.writes, y.locks, db)  BY <1>1, <1>7 DEF TxOK
<1> QED  BY <1>1, <1>6, <1>7, <1>8, <1>9, <1>10, <1>11, <1>12, ReadKeeps

LEMMA CheckEntitledKeeps ==
  ASSUME Sound, NEW t \in Request, CheckEntitled(t), UNCHANGED scene
  PROVE  Sound'
<1> DEFINE y == [tx[t] EXCEPT !.pc = "sit"]
<1>1. tx[t] \in TxType /\ TxOK(tx[t], db) /\ tx[t].pc = "entitled" /\ "sit" \in Step
  BY TxFields DEF CheckEntitled, At, Step
<1>2. /\ y.pc = "sit" /\ y.do = tx[t].do /\ y.writes = tx[t].writes /\ y.locks = tx[t].locks
  BY <1>1 DEF TxType
<1> HIDE DEF y
<1>3. OpOfStep(y)  BY <1>1, <1>2 DEF OpOfStep, TxOK
<1>4. WrittenBy(y)  BY <1>1, <1>2 DEF WrittenBy, TxOK, Returned
<1>5. StillSo(y, db)  BY <1>1, <1>2 DEF StillSo, TxOK, Returned
<1>6. CASE Goto(t, "sit")  BY <1>1, <1>3, <1>4, <1>5, <1>6, GotoKeeps DEF y
<1>7. Rollback(t) \/ Goto(t, "sit")  BY DEF CheckEntitled
<1> QED  BY <1>6, <1>7, RollbackKeeps

LEMMA ReadLinkKeeps ==
  ASSUME Sound, NEW t \in Request, ReadLink(t), UNCHANGED scene
  PROVE  Sound'
<1> DEFINE l == tx[t].do.link
           y == [tx[t] EXCEPT !.locks = @ \cup {Share(l)}, !.pc = "entitled"]
<1>1. tx[t] \in TxType /\ TxOK(tx[t], db) /\ tx[t].pc = "link" /\ "entitled" \in Step
  BY TxFields DEF ReadLink, At, Step
<1>2. tx[t].do.op = "join" /\ l \in Link  BY <1>1, TxFields, CommandFields DEF TxOK, OpOfStep
<1>3. Share(l) \in Row  BY <1>2, RowsOfTables
<1>4. /\ y.pc = "entitled" /\ y.do = tx[t].do /\ y.writes = tx[t].writes
      /\ y.locks = tx[t].locks \cup {Share(l)}
      /\ y.todo = tx[t].todo /\ y.seen = tx[t].seen /\ y.told = tx[t].told /\ y.due = tx[t].due
      /\ y \in TxType
  BY <1>1, <1>3 DEF TxType
<1>5. CASE Becomes(t, y) /\ Free(t, Share(l)) /\ db[Share(l)].conv # None /\ db[Share(l)].active
  <2> HIDE DEF y
  <2>1. OpOfStep(y)  BY <1>2, <1>4 DEF OpOfStep
  <2>2. WrittenBy(y)  BY <1>1, <1>4 DEF WrittenBy, TxOK, Returned
  <2>3. StillSo(y, db)  BY <1>1, <1>2, <1>4, <1>5 DEF StillSo, TxOK, Returned
  <2>4. LocksOK(y.writes, y.locks, db)
    <3>1. LocksOK(tx[t].writes, tx[t].locks, db)  BY <1>1 DEF TxOK
    <3>2. /\ \A c : Conv(c) # Share(l) /\ \A u : Seat(c, u) # Share(l)
          /\ \A i : Asked(i) # Share(l)
          /\ \A m : Share(m) = Share(l) => m = l
      BY RowKeys
    <3> HIDE DEF l
    <3> QED  BY <1>4, <1>5, <3>1, <3>2 DEF LocksOK
  <2> QED  BY <1>1, <1>4, <1>5, <2>1, <2>2, <2>3, <2>4, ReadKeeps
<1>6. \/ Rollback(t)
      \/ Becomes(t, y) /\ Free(t, Share(l)) /\ db[Share(l)].conv # None /\ db[Share(l)].active
  BY DEF ReadLink
<1> QED  BY <1>5, <1>6, RollbackKeeps

LEMMA ReadInviteKeeps ==
  ASSUME Sound, NEW t \in Request, ReadInvite(t), UNCHANGED scene
  PROVE  Sound'
<1> DEFINE i == tx[t].do.invite
           y == [tx[t] EXCEPT !.locks = @ \cup {Asked(i)}, !.pc = "membership"]
<1>1. tx[t] \in TxType /\ TxOK(tx[t], db) /\ tx[t].pc = "invite" /\ "membership" \in Step
  BY TxFields DEF ReadInvite, At, Step
<1>2. tx[t].do.op = "acceptInvite" /\ i \in Invite  BY <1>1, TxFields, CommandFields DEF TxOK, OpOfStep
<1>3. Asked(i) \in Row  BY <1>2, RowsOfTables
<1>4. /\ y.pc = "membership" /\ y.do = tx[t].do /\ y.writes = tx[t].writes
      /\ y.locks = tx[t].locks \cup {Asked(i)}
      /\ y.told = tx[t].told /\ y.due = tx[t].due
      /\ y \in TxType
  BY <1>1, <1>3 DEF TxType
<1>5. CASE Becomes(t, y) /\ Free(t, Asked(i)) /\ db[Asked(i)].to # None
  <2> HIDE DEF y
  <2>1. OpOfStep(y)  BY <1>2, <1>4 DEF OpOfStep
  <2>2. WrittenBy(y)  BY <1>1, <1>4 DEF WrittenBy, TxOK, Returned
  <2>3. StillSo(y, db)  BY <1>1, <1>2, <1>4, <1>5 DEF StillSo, TxOK, Returned
  <2>4. LocksOK(y.writes, y.locks, db)
    <3>1. LocksOK(tx[t].writes, tx[t].locks, db)  BY <1>1 DEF TxOK
    <3>2. /\ \A c : Conv(c) # Asked(i) /\ \A u : Seat(c, u) # Asked(i)
          /\ \A l : Share(l) # Asked(i)
          /\ \A m : Asked(m) = Asked(i) => m = i
      BY RowKeys
    <3> HIDE DEF i
    <3> QED  BY <1>4, <1>5, <3>1, <3>2 DEF LocksOK
  <2> QED  BY <1>1, <1>4, <1>5, <2>1, <2>2, <2>3, <2>4, ReadKeeps
<1>6. Rollback(t) \/ (Becomes(t, y) /\ Free(t, Asked(i)) /\ db[Asked(i)].to # None)
  BY DEF ReadInvite
<1> QED  BY <1>5, <1>6, RollbackKeeps

LEMMA LockMemberKeeps ==
  ASSUME Sound, NEW t \in Request, LockMember(t), UNCHANGED scene
  PROVE  Sound'
<1> DEFINE m == Member(tx[t].do.user)
           y == [tx[t] EXCEPT !.locks = @ \cup {m}, !.seen = View(t)[m], !.pc = "update"]
<1>1. tx[t] \in TxType /\ TxOK(tx[t], db) /\ tx[t].pc = "lock member" /\ "update" \in Step
  BY TxFields DEF LockMember, At, Step
<1>2. tx[t].do.op = "patchMember" /\ tx[t].do.user \in User  BY <1>1, TxFields, CommandFields DEF TxOK, OpOfStep
<1>3. m \in Row /\ View(t)[m] = db[m] /\ db[m] \in MemberRow
  <2>1. tx[t].writes = NoRows  BY <1>1 DEF TxOK, WrittenBy, Returned
  <2>2. m \in Row /\ db[m] \in MemberRow  BY <1>2, RowsOfTables DEF Sound, TablesOK, IsTables
  <2> QED  BY <2>1, <2>2, UnwrittenOK DEF View, Sound
<1>4. /\ y.pc = "update" /\ y.do = tx[t].do /\ y.writes = tx[t].writes
      /\ y.locks = tx[t].locks \cup {m} /\ y.seen = db[m]
      /\ y.told = tx[t].told /\ y.due = tx[t].due
      /\ y \in TxType
  BY <1>1, <1>3 DEF TxType
<1>5. CASE Becomes(t, y) /\ Free(t, m) /\ db[m].status # "none"
  <2> HIDE DEF y
  <2>1. OpOfStep(y)  BY <1>2, <1>4 DEF OpOfStep
  <2>2. WrittenBy(y)  BY <1>1, <1>4 DEF WrittenBy, TxOK, Returned
  <2>3. StillSo(y, db)  BY <1>1, <1>2, <1>4, <1>5 DEF StillSo, TxOK, Returned
  <2>4. LocksOK(y.writes, y.locks, db)
    <3>1. LocksOK(tx[t].writes, tx[t].locks, db)  BY <1>1 DEF TxOK
    <3>2. /\ \A c : Conv(c) # m /\ \A u : Seat(c, u) # m
          /\ \A l : Share(l) # m /\ Asked(l) # m
      BY RowKeys
    <3> HIDE DEF m
    <3> QED  BY <1>4, <1>5, <3>1, <3>2 DEF LocksOK
  <2> QED  BY <1>1, <1>4, <1>5, <2>1, <2>2, <2>3, <2>4, ReadKeeps
<1>6. Rollback(t) \/ (Becomes(t, y) /\ Free(t, m) /\ db[m].status # "none")
  BY <1>3 DEF LockMember
<1> QED  BY <1>5, <1>6, RollbackKeeps

LEMMA ListRoomsKeeps ==
  ASSUME Sound, NEW t \in Request, ListRooms(t), UNCHANGED scene
  PROVE  Sound'
<1> DEFINE rooms == {c \in Conversation : /\ View(t)[Conv(c)].scope = "private"
                                          /\ View(t)[Seat(c, tx[t].do.user)]}
           y == [tx[t] EXCEPT !.todo = rooms, !.pc = "leave rooms"]
<1>1. tx[t] \in TxType /\ TxOK(tx[t], db) /\ tx[t].pc = "list rooms" /\ "leave rooms" \in Step
  BY TxFields DEF ListRooms, At, Step
<1>2. tx[t].do.op = "patchMember" /\ tx[t].do.user \in User  BY <1>1, TxFields, CommandFields DEF TxOK, OpOfStep
<1>3. \A c \in Conversation : View(t)[Conv(c)] = db[Conv(c)]
  <2>1. DOMAIN tx[t].writes \subseteq {Member(tx[t].do.user)}  BY <1>1 DEF TxOK, WrittenBy
  <2>2. \A c : Conv(c) # Member(tx[t].do.user)  BY RowKeys
  <2>3. \A c \in Conversation : Conv(c) \in DOMAIN db  BY RowsOfTables DEF Sound, TablesOK, IsTables
  <2>4. \A c \in Conversation : Conv(c) \notin DOMAIN tx[t].writes  BY <2>1, <2>2
  <2> QED  BY <2>3, <2>4 DEF View, Overlay
<1>4. \A c \in rooms : c \in Conversation /\ db[Conv(c)].scope = "private"  BY <1>3
<1>5. rooms \subseteq Conversation  OBVIOUS
<1> HIDE DEF rooms
<1>6. /\ y.pc = "leave rooms" /\ y.do = tx[t].do /\ y.writes = tx[t].writes
      /\ y.locks = tx[t].locks /\ y.seen = tx[t].seen /\ y.todo = rooms
      /\ y.told = tx[t].told /\ y.due = tx[t].due
      /\ y \in TxType
  BY <1>1, <1>5 DEF TxType
<1>7. CASE Becomes(t, y)
  <2> HIDE DEF y
  <2>1. OpOfStep(y)  BY <1>2, <1>6 DEF OpOfStep
  <2>2. WrittenBy(y)  BY <1>1, <1>6 DEF WrittenBy, TxOK, Returned
  <2>3. StillSo(y, db)  BY <1>1, <1>2, <1>4, <1>6 DEF StillSo, TxOK, Returned
  <2>4. LocksOK(y.writes, y.locks, db)  BY <1>1, <1>6 DEF TxOK
  <2> QED  BY <1>1, <1>6, <1>7, <2>1, <2>2, <2>3, <2>4, ReadKeeps
<1>8. Rollback(t) \/ Becomes(t, y)  BY DEF ListRooms, rooms
<1> QED  BY <1>7, <1>8, RollbackKeeps

LEMMA RunCheckKeeps ==
  ASSUME Sound, NEW t \in Request, RunCheck(t), UNCHANGED scene
  PROVE  Sound'
<1>1. tx[t] \in TxType /\ TxOK(tx[t], db) /\ tx[t].pc \in Returned /\ "check" \in Step
  BY TxFields DEF RunCheck, Returned, Step
<1>2. PICK k \in tx[t].due :
        Rollback(t) \/ Becomes(t, [tx[t] EXCEPT !.pc = "check", !.due = @ \ {k}])
  BY DEF RunCheck
<1> DEFINE y == [tx[t] EXCEPT !.pc = "check", !.due = @ \ {k}]
<1>3. /\ y.pc = "check" /\ y.do = tx[t].do /\ y.writes = tx[t].writes
      /\ y.locks = tx[t].locks /\ y.seen = tx[t].seen /\ y.todo = tx[t].todo
      /\ y.told = tx[t].told /\ y \in TxType
  BY <1>1 DEF TxType
<1>4. CASE Becomes(t, y)
  <2> HIDE DEF y
  <2>1. OpOfStep(y) /\ ChecksQueued(y)  BY <1>3 DEF OpOfStep, ChecksQueued
  <2>2. WrittenBy(y)  BY <1>3 DEF WrittenBy, Returned
  <2>3. StillSo(y, db)  BY <1>1, <1>3 DEF StillSo, TxOK, Returned
  <2>4. TxOK(y, db)  BY <1>1, <1>3, <2>1, <2>2, <2>3, IdleFields DEF TxOK, Returned
  <2>5. ASSUME NEW o \in Request \ {t} PROVE Apart(y, tx[o])
    <3>1. Apart(tx[t], tx[o])  BY DEF Sound
    <3> QED  BY <1>3, <3>1 DEF Apart
  <2> QED  BY <1>3, <1>4, <2>4, <2>5, TxFields, OneMoves
<1> QED  BY <1>2, <1>4, RollbackKeeps

LEMMA AbortKeeps ==
  ASSUME Sound, NEW t \in Request, Abort(t), UNCHANGED scene
  PROVE  Sound'
BY RollbackKeeps DEF Abort

-----------------------------------------------------------------------------
(* Adding a row to what is written.                                        *)

\* What a statement sees: what its transaction wrote, or what is committed.
LEMMA Sight ==
  ASSUME NEW w, NEW v, IsTables(v)
  PROVE  /\ \A r \in DOMAIN w : Overlay(w, v)[r] = w[r]
         /\ \A r \in Row : r \notin DOMAIN w => Overlay(w, v)[r] = v[r]
BY DEF Overlay, IsTables

LEMMA SameLive ==
  ASSUME NEW v, NEW z, OneLive(v), \A l \in Link : z[Share(l)] = v[Share(l)]
  PROVE  OneLive(z)
BY DEF OneLive

\* Rows that are no links leave the links alone.
LEMMA LiveBesides ==
  ASSUME NEW v, IsTables(v), NEW w, NEW r, NEW b, OneLive(Overlay(w, v)), \A l \in Link : r # Share(l)
  PROVE  OneLive(Overlay(Overlay(Only(r, b), w), v))
<1> DEFINE n == Overlay(Only(r, b), w)
<1>1. DOMAIN n = {r} \cup DOMAIN w /\ \A s \in DOMAIN w : s # r => n[s] = w[s]  BY DEF Overlay, Only
<1> HIDE DEF n
<1>2. ASSUME NEW l \in Link PROVE Overlay(n, v)[Share(l)] = Overlay(w, v)[Share(l)]
  <2>1. Share(l) \in Row /\ (Share(l) \in DOMAIN n <=> Share(l) \in DOMAIN w)  BY <1>1, RowsOfTables
  <2> QED  BY <2>1, <1>1, Sight
<1>3. OneLive(Overlay(n, v))  BY <1>2, SameLive
<1> QED  BY <1>3 DEF n

LEMMA AddSeat ==
  ASSUME NEW v, IsTables(v), NEW w, NEW told, RowsOK(w, told, v),
         NEW c \in Conversation, NEW u \in User, Mutable(v, c), v[Conv(c)].scope # "none",
         Seat(c, u) \notin DOMAIN w, NEW b, b = ~v[Seat(c, u)]
  PROVE  RowsOK(Overlay(Only(Seat(c, u), b), w), told \cup {Seat(c, u)}, v)
<1> DEFINE r == Seat(c, u)
           n == Overlay(Only(r, b), w)
           N == told \cup {r}
<1>1. DOMAIN n = {r} \cup DOMAIN w /\ n[r] = b /\ \A s \in DOMAIN w : s # r => n[s] = w[s]  BY DEF Overlay, Only
<1>2. OneLive(Overlay(n, v))
  <2>1. \A l \in Link : r # Share(l)  BY RowKeys
  <2> QED  BY <2>1, LiveBesides DEF RowsOK
<1>3. /\ \A x : Member(x) # r /\ Conv(x) # r /\ Pair(x) # r /\ Share(x) # r /\ Asked(x) # r
      /\ \A x, y : Seat(x, y) = r => x = c /\ y = u
  BY RowKeys
<1> HIDE DEF n, r
<1>4. /\ \A x : Member(x) \in DOMAIN n <=> Member(x) \in DOMAIN w
      /\ \A x : Conv(x) \in DOMAIN n <=> Conv(x) \in DOMAIN w
      /\ \A x : Pair(x) \in DOMAIN n <=> Pair(x) \in DOMAIN w
      /\ \A x : Share(x) \in DOMAIN n <=> Share(x) \in DOMAIN w
      /\ \A x : Asked(x) \in DOMAIN n <=> Asked(x) \in DOMAIN w
      /\ \A x, y : Seat(x, y) \in DOMAIN n <=> (Seat(x, y) \in DOMAIN w \/ Seat(x, y) = r)
  BY <1>1, <1>3
<1>5. /\ \A x : Conv(x) \in DOMAIN w => n[Conv(x)] = w[Conv(x)]
      /\ \A x : Pair(x) \in DOMAIN w => n[Pair(x)] = w[Pair(x)]
      /\ \A x : Share(x) \in DOMAIN w => n[Share(x)] = w[Share(x)]
      /\ \A x : Asked(x) \in DOMAIN w => n[Asked(x)] = w[Asked(x)]
      /\ \A x, y : Seat(x, y) \in DOMAIN w => n[Seat(x, y)] = w[Seat(x, y)]
  BY <1>1, <1>3 DEF r
<1>6. MembersTold(n, N)  BY <1>4 DEF MembersTold, RowsOK
<1>7. NewConvs(n, N, v)
  <2> SUFFICES ASSUME NEW d \in Conversation, Conv(d) \in DOMAIN n
               PROVE  /\ v[Conv(d)].scope = "none" /\ n[Conv(d)].scope # "none" /\ Conv(d) \in N
                      /\ n[Conv(d)].scope = "global" =>
                           \/ \E l \in Link : Share(l) \in DOMAIN n /\ n[Share(l)].conv = d
                           \/ \E p \in Couple : Pair(p) \in DOMAIN n /\ n[Pair(p)] = d
    BY DEF NewConvs
  <2>1. /\ v[Conv(d)].scope = "none" /\ w[Conv(d)].scope # "none" /\ Conv(d) \in told
        /\ w[Conv(d)].scope = "global" =>
                           \/ \E l \in Link : Share(l) \in DOMAIN w /\ w[Share(l)].conv = d
                           \/ \E p \in Couple : Pair(p) \in DOMAIN w /\ w[Pair(p)] = d
    BY <1>4 DEF NewConvs, RowsOK
  <2> QED  BY <2>1, <1>4, <1>5
<1>8. SeatsChange(n, N, v)
  <2> SUFFICES ASSUME NEW d \in Conversation, NEW x \in User
               PROVE  /\ Seat(d, x) \in DOMAIN n => /\ n[Seat(d, x)] = ~v[Seat(d, x)]
                                                    /\ Mutable(v, d) \/ NewRoom(n, d)
                      /\ Seat(d, x) \in DOMAIN n <=> Seat(d, x) \in N
    BY DEF SeatsChange
  <2>1. /\ Seat(d, x) \in DOMAIN w => /\ w[Seat(d, x)] = ~v[Seat(d, x)]
                                      /\ Mutable(v, d) \/ NewRoom(w, d)
        /\ Seat(d, x) \in DOMAIN w <=> Seat(d, x) \in told
    BY DEF SeatsChange, RowsOK
  <2>2. CASE Seat(d, x) = r
    <3>1. d = c /\ x = u  BY <1>3, <2>2
    <3> QED  BY <3>1, <2>2, <1>1, <1>4
  <2>3. CASE Seat(d, x) # r  BY <2>1, <2>3, <1>4, <1>5 DEF NewRoom
  <2> QED  BY <2>2, <2>3
<1>9. NewPairs(n, v)
  <2> SUFFICES ASSUME NEW p \in Couple, Pair(p) \in DOMAIN n
               PROVE  /\ v[Pair(p)] = None /\ n[Pair(p)] \in Conversation
                      /\ Conv(n[Pair(p)]) \in DOMAIN n /\ n[Conv(n[Pair(p)])].scope = "global"
                      /\ \A x \in User : Seat(n[Pair(p)], x) \in DOMAIN n <=> x \in p
                      /\ \A l \in Link : Share(l) \in DOMAIN n => n[Share(l)].conv # n[Pair(p)]
    BY DEF NewPairs
  <2>1. /\ v[Pair(p)] = None /\ w[Pair(p)] \in Conversation
        /\ Conv(w[Pair(p)]) \in DOMAIN w /\ w[Conv(w[Pair(p)])].scope = "global"
        /\ \A x \in User : Seat(w[Pair(p)], x) \in DOMAIN w <=> x \in p
        /\ \A l \in Link : Share(l) \in DOMAIN w => w[Share(l)].conv # w[Pair(p)]
    BY <1>4 DEF NewPairs, RowsOK
  <2>2. n[Pair(p)] = w[Pair(p)]  BY <1>4, <1>5
  <2>3. w[Pair(p)] # c  BY <2>1 DEF NewConvs, RowsOK
  <2>4. \A x : Seat(w[Pair(p)], x) \in DOMAIN n <=> Seat(w[Pair(p)], x) \in DOMAIN w  BY <2>3, <1>3, <1>4
  <2> QED  BY <2>1, <2>2, <2>4, <1>4, <1>5
<1>10. LinksTurn(n, v)  BY <1>4, <1>5 DEF LinksTurn, NewRoom, RowsOK
<1>11. InvitesTurn(n, v)  BY <1>4, <1>5 DEF InvitesTurn, RowsOK
<1>12. RowsOK(n, N, v)  BY <1>2, <1>6, <1>7, <1>8, <1>9, <1>10, <1>11 DEF RowsOK
<1> QED  BY <1>12 DEF n, r

LEMMA AddOther ==
  ASSUME NEW v, NEW w, NEW told, RowsOK(w, told, v), NEW r, NEW b, NEW T, r \notin DOMAIN w,
         \A x : r # Conv(x) /\ r # Pair(x), \A x, y : r # Seat(x, y) /\ Seat(x, y) \notin T,
         \A u \in User : r = Member(u) => r \in T,
         \A l \in Link : r = Share(l) =>
           /\ b.conv \in Conversation /\ Mutable(v, b.conv) /\ v[Conv(b.conv)].scope # "none"
           /\ \/ v[r].conv = None /\ b.active
              \/ v[r].active /\ v[r].conv = b.conv /\ ~b.active,
         \A i \in Invite : r = Asked(i) => b.to # None /\ v[r].to \in {None, b.to},
         OneLive(Overlay(Overlay(Only(r, b), w), v))
  PROVE  RowsOK(Overlay(Only(r, b), w), told \cup T, v)
<1> DEFINE n == Overlay(Only(r, b), w)
           N == told \cup T
<1>1. DOMAIN n = {r} \cup DOMAIN w /\ n[r] = b /\ \A s \in DOMAIN w : n[s] = w[s]  BY DEF Overlay, Only
<1> HIDE DEF n
<1>2. MembersTold(n, N)  BY <1>1 DEF MembersTold, RowsOK
<1>3. NewConvs(n, N, v)
  <2> SUFFICES ASSUME NEW d \in Conversation, Conv(d) \in DOMAIN n
               PROVE  /\ v[Conv(d)].scope = "none" /\ n[Conv(d)].scope # "none" /\ Conv(d) \in N
                      /\ n[Conv(d)].scope = "global" =>
                           \/ \E l \in Link : Share(l) \in DOMAIN n /\ n[Share(l)].conv = d
                           \/ \E p \in Couple : Pair(p) \in DOMAIN n /\ n[Pair(p)] = d
    BY DEF NewConvs
  <2>1. Conv(d) \in DOMAIN w  BY <1>1
  <2>2. /\ v[Conv(d)].scope = "none" /\ w[Conv(d)].scope # "none" /\ Conv(d) \in told
        /\ w[Conv(d)].scope = "global" =>
                           \/ \E l \in Link : Share(l) \in DOMAIN w /\ w[Share(l)].conv = d
                           \/ \E p \in Couple : Pair(p) \in DOMAIN w /\ w[Pair(p)] = d
    BY <2>1 DEF NewConvs, RowsOK
  <2> QED  BY <2>1, <2>2, <1>1
<1>4. SeatsChange(n, N, v)
  <2> SUFFICES ASSUME NEW d \in Conversation, NEW x \in User
               PROVE  /\ Seat(d, x) \in DOMAIN n => /\ n[Seat(d, x)] = ~v[Seat(d, x)]
                                                    /\ Mutable(v, d) \/ NewRoom(n, d)
                      /\ Seat(d, x) \in DOMAIN n <=> Seat(d, x) \in N
    BY DEF SeatsChange
  <2>1. /\ Seat(d, x) \in DOMAIN w => /\ w[Seat(d, x)] = ~v[Seat(d, x)]
                                      /\ Mutable(v, d) \/ NewRoom(w, d)
        /\ Seat(d, x) \in DOMAIN w <=> Seat(d, x) \in told
    BY DEF SeatsChange, RowsOK
  <2>2. Seat(d, x) # r /\ Seat(d, x) \notin T  OBVIOUS
  <2> QED  BY <2>1, <2>2, <1>1 DEF NewRoom
<1>5. NewPairs(n, v)
  <2> SUFFICES ASSUME NEW p \in Couple, Pair(p) \in DOMAIN n
               PROVE  /\ v[Pair(p)] = None /\ n[Pair(p)] \in Conversation
                      /\ Conv(n[Pair(p)]) \in DOMAIN n /\ n[Conv(n[Pair(p)])].scope = "global"
                      /\ \A x \in User : Seat(n[Pair(p)], x) \in DOMAIN n <=> x \in p
                      /\ \A l \in Link : Share(l) \in DOMAIN n => n[Share(l)].conv # n[Pair(p)]
    BY DEF NewPairs
  <2>1. Pair(p) \in DOMAIN w  BY <1>1
  <2>2. /\ v[Pair(p)] = None /\ w[Pair(p)] \in Conversation
        /\ Conv(w[Pair(p)]) \in DOMAIN w /\ w[Conv(w[Pair(p)])].scope = "global"
        /\ \A x \in User : Seat(w[Pair(p)], x) \in DOMAIN w <=> x \in p
        /\ \A l \in Link : Share(l) \in DOMAIN w => w[Share(l)].conv # w[Pair(p)]
    BY <2>1 DEF NewPairs, RowsOK
  <2>3. v[Conv(w[Pair(p)])].scope = "none"  BY <2>2 DEF NewConvs, RowsOK
  <2>4. \A x : Seat(w[Pair(p)], x) \in DOMAIN n <=> Seat(w[Pair(p)], x) \in DOMAIN w  BY <1>1
  <2>5. \A l \in Link : Share(l) = r => b.conv # w[Pair(p)]  BY <2>3
  <2> QED  BY <2>1, <2>2, <2>4, <2>5, <1>1
<1>6. LinksTurn(n, v)
  <2> SUFFICES ASSUME NEW l \in Link, Share(l) \in DOMAIN n
               PROVE  /\ n[Share(l)].conv \in Conversation
                      /\ \/ /\ v[Share(l)].conv = None /\ n[Share(l)].active
                            /\ Mutable(v, n[Share(l)].conv) \/ NewRoom(n, n[Share(l)].conv)
                         \/ v[Share(l)].active /\ v[Share(l)].conv = n[Share(l)].conv /\ ~n[Share(l)].active
    BY DEF LinksTurn
  <2>1. CASE Share(l) = r  BY <2>1, <1>1
  <2>2. CASE Share(l) # r
    <3>1. Share(l) \in DOMAIN w /\ n[Share(l)] = w[Share(l)]  BY <2>2, <1>1
    <3>2. NewRoom(w, w[Share(l)].conv) => NewRoom(n, w[Share(l)].conv)  BY <1>1 DEF NewRoom
    <3> QED  BY <3>1, <3>2 DEF LinksTurn, RowsOK
  <2> QED  BY <2>1, <2>2
<1>7. InvitesTurn(n, v)  BY <1>1 DEF InvitesTurn, RowsOK
<1>8. RowsOK(n, N, v)  BY <1>2, <1>3, <1>4, <1>5, <1>6, <1>7 DEF RowsOK, n
<1> QED  BY <1>8 DEF n

\* Nobody has locked what is not there.
LEMMA FreshFree ==
  ASSUME Sound, NEW t \in Request
  PROVE  /\ \A c \in Conversation : FreshConv(c) =>
              Free(t, Conv(c)) /\ \A u \in User : Free(t, Seat(c, u))
         /\ \A l \in Link : FreshLink(l) => Free(t, Share(l))
         /\ \A i \in Invite : FreshInvite(i) => Free(t, Asked(i))
<1> SUFFICES ASSUME NEW o \in Others(t)
             PROVE  /\ \A c \in Conversation : FreshConv(c) =>
                         Conv(c) \notin tx[o].locks /\ \A u \in User : Seat(c, u) \notin tx[o].locks
                    /\ \A l \in Link : FreshLink(l) => Share(l) \notin tx[o].locks
                    /\ \A i \in Invite : FreshInvite(i) => Asked(i) \notin tx[o].locks
  BY DEF Free
<1>1. o \in Request /\ LocksOK(tx[o].writes, tx[o].locks, db) /\ SeatsChange(tx[o].writes, tx[o].told, db)
  BY DEF Others, Sound, TxOK, RowsOK
<1> QED  BY <1>1 DEF LocksOK, SeatsChange, FreshConv, FreshLink, FreshInvite, Mutable, MembersOnly, NewRoom

-----------------------------------------------------------------------------
(* The statements that write.                                              *)

LEMMA WroteFields ==
  ASSUME Sound, NEW t \in Request, NEW w \in Written, NEW told \in SUBSET Row
  PROVE  LET y == Wrote(t, w, told)
         IN /\ y \in TxType
            /\ y.pc = tx[t].pc /\ y.do = tx[t].do /\ y.seen = tx[t].seen /\ y.todo = tx[t].todo
            /\ y.writes = Overlay(w, tx[t].writes) /\ y.locks = tx[t].locks \cup DOMAIN w
            /\ y.told = tx[t].told \cup told /\ y.due = tx[t].due \cup Due(w)
<1>1. tx[t] \in TxType  BY TxFields
<1>2. Overlay(w, tx[t].writes) \in Written  BY <1>1, OverlayWritten DEF TxType
<1>3. DOMAIN w \subseteq Row /\ Due(w) \subseteq Check  BY WrittenIs, DueChecks
<1> QED  BY <1>1, <1>2, <1>3 DEF Wrote, TxType

\* The transaction x at another step.
Moved(x, pc) == [x EXCEPT !.pc = pc]

\* y is the transaction x after it has written w and told T.
WroteTo(x, y, w, T) ==
  /\ y \in TxType
  /\ y.do = x.do /\ y.seen = x.seen /\ y.todo = x.todo
  /\ y.writes = Overlay(w, x.writes) /\ y.locks = x.locks \cup DOMAIN w
  /\ y.told = x.told \cup T /\ y.due = x.due \cup Due(w)

LEMMA WroteMoved ==
  ASSUME Sound, NEW t \in Request, NEW w \in Written, NEW told, told \subseteq Row, NEW pc \in Step
  PROVE  /\ WroteTo(tx[t], Moved(Wrote(t, w, told), pc), w, told)
         /\ Moved(Wrote(t, w, told), pc).pc = pc
<1>1. PICK z : z = Wrote(t, w, told)  OBVIOUS
<1>2. /\ z \in TxType
      /\ z.do = tx[t].do /\ z.seen = tx[t].seen /\ z.todo = tx[t].todo
      /\ z.writes = Overlay(w, tx[t].writes) /\ z.locks = tx[t].locks \cup DOMAIN w
      /\ z.told = tx[t].told \cup told /\ z.due = tx[t].due \cup Due(w)
  BY <1>1, WroteFields
<1>3. Moved(Wrote(t, w, told), pc) = [z EXCEPT !.pc = pc]  BY <1>1 DEF Moved
<1>4. PICK y : y = [z EXCEPT !.pc = pc]  OBVIOUS
<1>5. /\ y \in TxType /\ y.pc = pc
      /\ y.do = z.do /\ y.seen = z.seen /\ y.todo = z.todo
      /\ y.writes = z.writes /\ y.locks = z.locks /\ y.told = z.told /\ y.due = z.due
  BY <1>2, <1>4 DEF TxType
<1> QED  BY <1>2, <1>3, <1>4, <1>5 DEF WroteTo

\* WriteKeeps for it.
LEMMA WroteKeeps ==
  ASSUME Sound, NEW t \in Request, NEW y, Becomes(t, y), UNCHANGED scene,
         NEW w \in Written, Fits(w), NEW T, WroteTo(tx[t], y, w, T),
         tx[t].pc \notin {"idle", "check"}, y.pc \notin {"idle", "check"},
         RowsOK(Overlay(w, tx[t].writes), tx[t].told \cup T, db), \A r \in DOMAIN w : Free(t, r),
         \A l, m \in Link, o \in Request \ {t} :
           (Share(l) \in DOMAIN w /\ Share(m) \in DOMAIN tx[o].writes) =>
             w[Share(l)].conv # tx[o].writes[Share(m)].conv,
         OpOfStep(y), WrittenBy(y), StillSo(y, db)
  PROVE  Sound'
<1>1. /\ y \in TxType /\ y.do = tx[t].do
      /\ y.writes = Overlay(w, tx[t].writes) /\ y.locks = tx[t].locks \cup DOMAIN w
      /\ y.due = tx[t].due \cup Due(w)
  BY DEF WroteTo
<1>2. RowsOK(y.writes, y.told, db)  BY DEF WroteTo
<1> QED  BY <1>1, <1>2, WriteKeeps

LEMMA SightOf ==
  ASSUME Sound, NEW t \in Request
  PROVE  /\ IsTables(View(t)) /\ DOMAIN tx[t].writes \subseteq Row
         /\ \A r \in DOMAIN tx[t].writes : View(t)[r] = tx[t].writes[r]
         /\ \A r \in Row : r \notin DOMAIN tx[t].writes => View(t)[r] = db[r]
<1>1. IsTables(db) /\ Fits(tx[t].writes) /\ DOMAIN tx[t].writes \subseteq Row
  BY WrittenIs, TxFields DEF Sound, TablesOK, TxOK, TxType
<1>2. IsTables(View(t))  BY <1>1, OverlayTables DEF View
<1> QED  BY <1>1, <1>2, Sight DEF View

LEMMA SeatOnly ==
  ASSUME NEW c \in Conversation, NEW u \in User, NEW b \in BOOLEAN
  PROVE  /\ Only(Seat(c, u), b) \in Written /\ Fits(Only(Seat(c, u), b))
         /\ DOMAIN Only(Seat(c, u), b) = {Seat(c, u)} /\ {Seat(c, u)} \subseteq Row
<1>1. Seat(c, u) \in Row /\ b \in Cell  BY RowsOfTables DEF Cell
<1>2. DOMAIN Only(Seat(c, u), b) = {Seat(c, u)} /\ Only(Seat(c, u), b)[Seat(c, u)] = b  BY OnlyOne
<1>3. Only(Seat(c, u), b) \in Written  BY <1>1, OnlyWritten
<1>4. Fits(Only(Seat(c, u), b))
  <2>1. \A x : Member(x) # Seat(c, u) /\ Conv(x) # Seat(c, u) /\ Pair(x) # Seat(c, u)
               /\ Share(x) # Seat(c, u) /\ Asked(x) # Seat(c, u)
    BY RowKeys
  <2> QED  BY <1>2, <2>1 DEF Fits
<1> QED  BY <1>1, <1>2, <1>3, <1>4

\* A participant row turns, and its event is told.
LEMMA SeatKeeps ==
  ASSUME Sound, NEW t \in Request, UNCHANGED scene,
         NEW c \in Conversation, NEW u \in User, Mutable(db, c),
         Seat(c, u) \notin DOMAIN tx[t].writes, NEW b \in BOOLEAN, b = ~db[Seat(c, u)],
         Free(t, Seat(c, u)), NEW y \in TxType, Becomes(t, y),
         y.writes = Overlay(Only(Seat(c, u), b), tx[t].writes), y.locks = tx[t].locks \cup {Seat(c, u)},
         y.told = tx[t].told \cup {Seat(c, u)}, y.due = tx[t].due \cup Due(Only(Seat(c, u), b)),
         y.do = tx[t].do, tx[t].pc \notin {"idle", "check"}, y.pc \notin {"idle", "check"},
         OpOfStep(y), WrittenBy(y), StillSo(y, db)
  PROVE  Sound'
<1> DEFINE w == Only(Seat(c, u), b)
<1>1. w \in Written /\ Fits(w) /\ DOMAIN w = {Seat(c, u)}  BY SeatOnly
<1>2. RowsOK(tx[t].writes, tx[t].told, db) /\ IsTables(db)  BY TxFields DEF Sound, TxOK, TablesOK
<1>3. db[Conv(c)].scope # "none"  BY DEF Mutable, MembersOnly
<1>4. RowsOK(y.writes, y.told, db)  BY <1>2, <1>3, AddSeat
<1>5. \A l : Share(l) # Seat(c, u)  BY RowKeys
<1> HIDE DEF w
<1>6. y.writes = Overlay(w, tx[t].writes) /\ y.due = tx[t].due \cup Due(w)  BY DEF w
<1>7. y.locks = tx[t].locks \cup DOMAIN w /\ \A r \in DOMAIN w : Free(t, r)  BY <1>1
<1>8. \A l, m \in Link, o \in Request \ {t} :
           (Share(l) \in DOMAIN w /\ Share(m) \in DOMAIN tx[o].writes) =>
             w[Share(l)].conv # tx[o].writes[Share(m)].conv
  BY <1>1, <1>5
<1> QED  BY <1>1, <1>4, <1>6, <1>7, <1>8, WriteKeeps

LEMMA AddOneKeeps ==
  ASSUME Sound, NEW t \in Request, AddOne(t), UNCHANGED scene
  PROVE  Sound'
<1> DEFINE c == tx[t].do.conv
<1>1. tx[t] \in TxType /\ TxOK(tx[t], db) /\ tx[t].pc = "add"  BY TxFields DEF AddOne, At
<1>2. /\ tx[t].do.op = "addParticipants" /\ c \in Conversation /\ Mutable(db, c) /\ tx[t].todo \subseteq User
  BY <1>1, TxFields, CommandFields DEF TxOK, OpOfStep, StillSo
<1>3. CASE Goto(t, "done")  BY <1>1, <1>3, PlainGotoKeeps
<1>4. ASSUME NEW u \in tx[t].todo, Free(t, Seat(c, u)),
             Becomes(t, [TakeSeat(t, c, u) EXCEPT !.todo = @ \ {u}])
      PROVE  Sound'
  <2> DEFINE y == [TakeSeat(t, c, u) EXCEPT !.todo = @ \ {u}]
  <2>1. u \in User /\ Seat(c, u) \in Row /\ db[Seat(c, u)] \in BOOLEAN
    BY <1>2, <1>4, RowsOfTables DEF Sound, TablesOK, IsTables
  <2>2. CASE View(t)[Seat(c, u)]
    <3>1. /\ y \in TxType /\ y.pc = "add" /\ y.do = tx[t].do /\ y.writes = tx[t].writes
          /\ y.locks = tx[t].locks /\ y.told = tx[t].told /\ y.due = tx[t].due /\ y.todo \subseteq tx[t].todo
      BY <1>1, <2>2 DEF TxType, TakeSeat
    <3> HIDE DEF y
    <3>2. OpOfStep(y) /\ WrittenBy(y) /\ StillSo(y, db) /\ LocksOK(y.writes, y.locks, db)
      BY <1>1, <1>2, <3>1 DEF OpOfStep, WrittenBy, StillSo, TxOK, Returned
    <3> QED  BY <1>1, <1>4, <3>1, <3>2, ReadKeeps DEF y
  <2>3. CASE ~View(t)[Seat(c, u)]
    <3> DEFINE w == Only(Seat(c, u), TRUE)
    <3>1. w \in Written /\ DOMAIN w = {Seat(c, u)} /\ {Seat(c, u)} \in SUBSET Row  BY <1>2, <2>1, SeatOnly
    <3> HIDE DEF w
    <3>2. y = [Wrote(t, w, {Seat(c, u)}) EXCEPT !.todo = @ \ {u}]  BY <2>3 DEF TakeSeat, w
    <3>3. /\ y \in TxType /\ y.pc = "add" /\ y.do = tx[t].do /\ y.writes = Overlay(w, tx[t].writes)
          /\ y.locks = tx[t].locks \cup {Seat(c, u)} /\ y.told = tx[t].told \cup {Seat(c, u)}
          /\ y.due = tx[t].due \cup Due(w) /\ y.todo \subseteq tx[t].todo
      BY <1>1, <3>1, <3>2, WroteFields DEF TxType
    <3>4. Seat(c, u) \notin DOMAIN tx[t].writes /\ ~db[Seat(c, u)]
      <4>1. ASSUME Seat(c, u) \in DOMAIN tx[t].writes PROVE FALSE
        <5>1. tx[t].writes[Seat(c, u)] = TRUE  BY <1>1, <4>1 DEF TxOK, WrittenBy
        <5> QED  BY <2>3, <4>1, <5>1, SightOf
      <4>2. View(t)[Seat(c, u)] = db[Seat(c, u)]  BY <2>1, <4>1, SightOf
      <4> QED  BY <2>3, <4>1, <4>2
    <3> HIDE DEF y
    <3>5. OpOfStep(y) /\ StillSo(y, db)
      BY <1>1, <1>2, <3>3 DEF OpOfStep, StillSo, TxOK, Returned
    <3>6. WrittenBy(y)
      <4>1. \A r \in DOMAIN y.writes : \/ r = Seat(c, u) /\ y.writes[r] = TRUE
                                       \/ r \in DOMAIN tx[t].writes /\ y.writes[r] = tx[t].writes[r]
        BY <3>3 DEF w, Only, Overlay
      <4>2. \A r \in DOMAIN tx[t].writes : \E x \in User : r = Seat(c, x) /\ tx[t].writes[r] = TRUE
        BY <1>1 DEF TxOK, WrittenBy
      <4>3. \A r \in DOMAIN y.writes : \E x \in User : r = Seat(y.do.conv, x) /\ y.writes[r] = TRUE
        BY <2>1, <3>3, <4>1, <4>2
      <4> QED  BY <3>3, <4>3 DEF WrittenBy, Returned
    <3>7. Becomes(t, y)  BY <1>4 DEF y
    <3>8. TRUE = ~db[Seat(c, u)]  BY <2>1, <3>4
    <3> QED  BY <1>1, <1>2, <1>4, <2>1, <3>3, <3>4, <3>5, <3>6, <3>7, <3>8, SeatKeeps DEF w
  <2> QED  BY <2>2, <2>3
<1> QED  BY <1>3, <1>4 DEF AddOne

LEMMA DeleteKeeps ==
  ASSUME Sound, NEW t \in Request, Delete(t), UNCHANGED scene
  PROVE  Sound'
<1> DEFINE c == tx[t].do.conv  u == tx[t].do.user
           w == Only(Seat(c, u), FALSE)
           y == [LeaveSeat(t, c, u) EXCEPT !.pc = "done"]
<1>1. tx[t] \in TxType /\ TxOK(tx[t], db) /\ tx[t].pc = "delete"  BY TxFields DEF Delete, At
<1>2. tx[t].do.op = "deleteParticipant" /\ c \in Conversation /\ u \in User /\ Mutable(db, c)
  BY <1>1, TxFields, CommandFields DEF TxOK, OpOfStep, StillSo
<1>3. w \in Written /\ DOMAIN w = {Seat(c, u)} /\ {Seat(c, u)} \in SUBSET Row /\ "done" \in Step
  BY <1>2, SeatOnly DEF Step
<1>4. tx[t].writes = NoRows /\ DOMAIN tx[t].writes = {}  BY <1>1, NoRowsWritten DEF TxOK, WrittenBy, Returned
<1>5. View(t)[Seat(c, u)] = db[Seat(c, u)] /\ db[Seat(c, u)] \in BOOLEAN
  BY <1>2, <1>3, <1>4, SightOf DEF Sound, TablesOK, IsTables
<1>6. CASE View(t)[Seat(c, u)] /\ Free(t, Seat(c, u)) /\ Becomes(t, y)
  <2> HIDE DEF w
  <2>1. y = [Wrote(t, w, {Seat(c, u)}) EXCEPT !.pc = "done"]  BY DEF LeaveSeat, w
  <2>2. /\ y \in TxType /\ y.pc = "done" /\ y.do = tx[t].do /\ y.writes = Overlay(w, tx[t].writes)
        /\ y.locks = tx[t].locks \cup {Seat(c, u)} /\ y.told = tx[t].told \cup {Seat(c, u)}
        /\ y.due = tx[t].due \cup Due(w)
    BY <1>1, <1>3, <2>1, WroteFields DEF TxType
  <2> HIDE DEF y
  <2>3. OpOfStep(y) /\ WrittenBy(y) /\ StillSo(y, db)
    BY <1>1, <1>2, <2>2 DEF OpOfStep, WrittenBy, StillSo, TxOK, Returned
  <2>4. FALSE = ~db[Seat(c, u)]  BY <1>5, <1>6
  <2>5. Becomes(t, y) /\ Free(t, Seat(c, u)) /\ Seat(c, u) \notin DOMAIN tx[t].writes  BY <1>4, <1>6
  <2> QED  BY <1>1, <1>2, <2>2, <2>3, <2>4, <2>5, SeatKeeps DEF w
<1>7. Rollback(t) \/ (View(t)[Seat(c, u)] /\ Free(t, Seat(c, u)) /\ Becomes(t, y))
  BY DEF Delete, Deletable
<1> QED  BY <1>6, <1>7, RollbackKeeps

LEMMA SitKeeps ==
  ASSUME Sound, NEW t \in Request, Sit(t), UNCHANGED scene
  PROVE  Sound'
<1> DEFINE l == tx[t].do.link  c == db[Share(l)].conv  u == tx[t].do.by
           w == Only(Seat(c, u), TRUE)
           y == [TakeSeat(t, c, u) EXCEPT !.pc = "done"]
<1>1. tx[t] \in TxType /\ TxOK(tx[t], db) /\ tx[t].pc = "sit"  BY TxFields DEF Sit, At
<1>2. /\ tx[t].do.op = "join" /\ l \in Link /\ u \in User
      /\ Share(l) \in tx[t].locks /\ db[Share(l)].active
  BY <1>1, TxFields, CommandFields DEF TxOK, OpOfStep, StillSo
<1>3. c \in Conversation /\ Mutable(db, c)
  <2>1. db[Share(l)] \in ShareRow  BY <1>2 DEF Sound, TablesOK, IsTables
  <2>2. c \in Conversation  BY <1>2, <2>1, LinkFields
  <2>3. c # None  BY <2>2, NoneAssumption
  <2> QED  BY <1>2, <2>2, <2>3 DEF Sound, TablesOK, References
<1> HIDE DEF c
<1>4. w \in Written /\ DOMAIN w = {Seat(c, u)} /\ {Seat(c, u)} \in SUBSET Row /\ "done" \in Step
  BY <1>2, <1>3, SeatOnly DEF Step
<1>5. tx[t].writes = NoRows /\ DOMAIN tx[t].writes = {}  BY <1>1, NoRowsWritten DEF TxOK, WrittenBy, Returned
<1>6. View(t)[Seat(c, u)] = db[Seat(c, u)] /\ db[Seat(c, u)] \in BOOLEAN
  BY <1>2, <1>3, <1>4, <1>5, SightOf DEF Sound, TablesOK, IsTables
<1>7. Becomes(t, y) /\ Free(t, Seat(c, u))  BY DEF Sit, c
<1>8. CASE View(t)[Seat(c, u)]
  <2>1. y = [tx[t] EXCEPT !.pc = "done"]  BY <1>8 DEF TakeSeat
  <2>2. y.pc = "done" /\ y.do = tx[t].do /\ y.writes = tx[t].writes /\ y.locks = tx[t].locks
    BY <1>1, <2>1 DEF TxType
  <2> HIDE DEF y
  <2>3. OpOfStep(y) /\ WrittenBy(y) /\ StillSo(y, db)
    BY <1>1, <1>2, <2>2 DEF OpOfStep, WrittenBy, StillSo, TxOK, Returned
  <2>4. Goto(t, "done")  BY <1>7, <2>1 DEF Goto
  <2> QED  BY <1>1, <1>4, <2>1, <2>3, <2>4, GotoKeeps
<1>9. CASE ~View(t)[Seat(c, u)]
  <2> HIDE DEF w
  <2>1. y = [Wrote(t, w, {Seat(c, u)}) EXCEPT !.pc = "done"]  BY <1>9 DEF TakeSeat, w
  <2>2. /\ y \in TxType /\ y.pc = "done" /\ y.do = tx[t].do /\ y.writes = Overlay(w, tx[t].writes)
        /\ y.locks = tx[t].locks \cup {Seat(c, u)} /\ y.told = tx[t].told \cup {Seat(c, u)}
        /\ y.due = tx[t].due \cup Due(w)
    BY <1>1, <1>4, <2>1, WroteFields DEF TxType
  <2> HIDE DEF y
  <2>3. OpOfStep(y) /\ WrittenBy(y) /\ StillSo(y, db)
    BY <1>1, <1>2, <2>2 DEF OpOfStep, WrittenBy, StillSo, TxOK, Returned
  <2>4. TRUE = ~db[Seat(c, u)]  BY <1>6, <1>9
  <2>5. Seat(c, u) \notin DOMAIN tx[t].writes  BY <1>5
  <2> QED  BY <1>1, <1>2, <1>3, <1>7, <2>2, <2>3, <2>4, <2>5, SeatKeeps DEF w
<1> QED  BY <1>8, <1>9

LEMMA LeaveRoomKeeps ==
  ASSUME Sound, NEW t \in Request, LeaveRoom(t), UNCHANGED scene
  PROVE  Sound'
<1> DEFINE u == tx[t].do.user
<1>1. tx[t] \in TxType /\ TxOK(tx[t], db) /\ tx[t].pc = "leave rooms"  BY TxFields DEF LeaveRoom, At
<1>2. /\ tx[t].do.op = "patchMember" /\ u \in User
      /\ \A c \in tx[t].todo : c \in Conversation /\ db[Conv(c)].scope = "private"
  BY <1>1, TxFields, CommandFields DEF TxOK, OpOfStep, StillSo
<1>3. CASE Goto(t, "done")  BY <1>1, <1>3, PlainGotoKeeps
<1>4. ASSUME NEW c \in tx[t].todo, Deletable(t, c, u),
             Becomes(t, [(IF View(t)[Seat(c, u)] THEN LeaveSeat(t, c, u) ELSE tx[t]) EXCEPT !.todo = @ \ {c}])
      PROVE  Sound'
  <2> DEFINE y == [(IF View(t)[Seat(c, u)] THEN LeaveSeat(t, c, u) ELSE tx[t]) EXCEPT !.todo = @ \ {c}]
  <2>1. c \in Conversation /\ Seat(c, u) \in Row /\ db[Seat(c, u)] \in BOOLEAN
    BY <1>2, <1>4, RowsOfTables DEF Sound, TablesOK, IsTables
  <2>2. Mutable(db, c)
    <3>1. db[Conv(c)].scope = "private" /\ c # None  BY <1>2, <2>1, NoneAssumption
    <3>2. ~IsDM(db, c)  BY <3>1 DEF IsDM, Sound, TablesOK, PairsAreGlobal
    <3> QED  BY <3>1, <3>2 DEF Mutable, MembersOnly
  <2>3. CASE ~View(t)[Seat(c, u)]
    <3>1. /\ y \in TxType /\ y.pc = "leave rooms" /\ y.do = tx[t].do /\ y.writes = tx[t].writes
          /\ y.locks = tx[t].locks /\ y.told = tx[t].told /\ y.due = tx[t].due /\ y.todo \subseteq tx[t].todo
          /\ y.seen = tx[t].seen
      BY <1>1, <2>3 DEF TxType
    <3> HIDE DEF y
    <3>2. OpOfStep(y) /\ LocksOK(y.writes, y.locks, db)  BY <1>1, <1>2, <3>1 DEF OpOfStep, TxOK
    <3>3. WrittenBy(y)  BY <1>1, <3>1 DEF WrittenBy, TxOK, Returned
    <3>4. StillSo(y, db)  BY <1>1, <1>2, <3>1 DEF StillSo, TxOK, Returned
    <3> QED  BY <1>1, <1>4, <3>1, <3>2, <3>3, <3>4, ReadKeeps DEF y
  <2>4. CASE View(t)[Seat(c, u)]
    <3> DEFINE w == Only(Seat(c, u), FALSE)
    <3>1. w \in Written /\ DOMAIN w = {Seat(c, u)} /\ {Seat(c, u)} \in SUBSET Row  BY <1>2, <2>1, SeatOnly
    <3>2. \A r \in {Seat(c, u)} : w[r] = FALSE  BY OnlyOne
    <3> HIDE DEF w
    <3>3. y = [Wrote(t, w, {Seat(c, u)}) EXCEPT !.todo = @ \ {c}]  BY <2>4 DEF LeaveSeat, w
    <3>4. /\ y \in TxType /\ y.pc = "leave rooms" /\ y.do = tx[t].do /\ y.writes = Overlay(w, tx[t].writes)
          /\ y.locks = tx[t].locks \cup {Seat(c, u)} /\ y.told = tx[t].told \cup {Seat(c, u)}
          /\ y.due = tx[t].due \cup Due(w) /\ y.todo \subseteq tx[t].todo /\ y.seen = tx[t].seen
      <4>1. PICK z : z = Wrote(t, w, {Seat(c, u)})  OBVIOUS
      <4>2. /\ z \in TxType /\ z.pc = tx[t].pc /\ z.do = tx[t].do /\ z.seen = tx[t].seen
            /\ z.todo = tx[t].todo
            /\ z.writes = Overlay(w, tx[t].writes) /\ z.locks = tx[t].locks \cup {Seat(c, u)}
            /\ z.told = tx[t].told \cup {Seat(c, u)} /\ z.due = tx[t].due \cup Due(w)
        BY <3>1, <4>1, WroteFields
      <4>3. y = [z EXCEPT !.todo = @ \ {c}]  BY <3>3, <4>1
      <4> HIDE DEF y
      <4> QED  BY <1>1, <4>2, <4>3 DEF TxType
    <3>5. Seat(c, u) \notin DOMAIN tx[t].writes
      <4>1. ASSUME Seat(c, u) \in DOMAIN tx[t].writes PROVE FALSE
        <5>1. Seat(c, u) # Member(u)  BY RowKeys
        <5>2. tx[t].writes[Seat(c, u)] = FALSE  BY <1>1, <4>1, <5>1 DEF TxOK, WrittenBy
        <5> QED  BY <2>4, <4>1, <5>2, SightOf
      <4> QED  BY <4>1
    <3>6. View(t)[Seat(c, u)] = db[Seat(c, u)]  BY <2>1, <3>5, SightOf
    <3> HIDE DEF y
    <3>7. \A r \in DOMAIN y.writes : \/ r = Seat(c, u) /\ y.writes[r] = FALSE
                                     \/ r \in DOMAIN tx[t].writes /\ y.writes[r] = tx[t].writes[r]
      BY <3>4 DEF w, Only, Overlay
    <3>8. DOMAIN tx[t].writes \subseteq DOMAIN y.writes /\ DOMAIN y.writes = {Seat(c, u)} \cup DOMAIN tx[t].writes
      BY <3>1, <3>4 DEF Overlay
    <3>9. OpOfStep(y)  BY <1>1, <1>2, <3>4 DEF OpOfStep, TxOK
    <3>10. WrittenBy(y)
      <4>1. \A r \in DOMAIN tx[t].writes :
              r = Member(u) \/ \E d \in Conversation : r = Seat(d, u) /\ tx[t].writes[r] = FALSE
        BY <1>1 DEF TxOK, WrittenBy
      <4>2. \A r \in DOMAIN y.writes :
              r = Member(u) \/ \E d \in Conversation : r = Seat(d, u) /\ y.writes[r] = FALSE
        BY <2>1, <3>7, <4>1
      <4> QED  BY <3>4, <4>2 DEF WrittenBy, Returned
    <3>11. StillSo(y, db)
      <4>1. /\ Member(u) \in tx[t].locks /\ tx[t].seen = db[Member(u)] /\ tx[t].seen.status # "none"
            /\ Member(u) \in DOMAIN tx[t].writes /\ tx[t].writes[Member(u)] = Patched(tx[t].do, tx[t].seen)
        BY <1>1, <1>2 DEF TxOK, StillSo
      <4>2. Seat(c, u) # Member(u)  BY RowKeys
      <4>3. y.writes[Member(u)] = tx[t].writes[Member(u)] /\ Member(u) \in DOMAIN y.writes
        BY <3>7, <3>8, <4>1, <4>2
      <4> QED  BY <1>2, <3>4, <4>1, <4>3 DEF StillSo, Returned
    <3>12. Becomes(t, y)  BY <1>4 DEF y
    <3>13. FALSE = ~db[Seat(c, u)] /\ Free(t, Seat(c, u))  BY <1>4, <2>1, <2>4, <3>6 DEF Deletable
    <3> QED  BY <1>1, <1>2, <2>1, <2>2, <3>4, <3>5, <3>9, <3>10, <3>11, <3>12, <3>13, SeatKeeps DEF w
  <2> QED  BY <2>3, <2>4
<1> QED  BY <1>3, <1>4 DEF LeaveRoom

LEMMA ShareOnly ==
  ASSUME NEW l \in Link, NEW c \in Conversation, NEW b \in BOOLEAN
  PROVE  LET w == Only(Share(l), [conv |-> c, active |-> b])
         IN /\ w \in Written /\ Fits(w) /\ DOMAIN w = {Share(l)} /\ {Share(l)} \subseteq Row
            /\ w[Share(l)].conv = c /\ w[Share(l)].active = b
<1> DEFINE v == [conv |-> c, active |-> b]
           w == Only(Share(l), v)
<1>1. v \in ShareRow /\ v.conv = c /\ v.active = b  BY DEF ShareRow
<1> HIDE DEF v
<1>2. Share(l) \in Row /\ v \in Cell  BY <1>1, RowsOfTables DEF Cell
<1>3. DOMAIN w = {Share(l)} /\ w[Share(l)] = v  BY OnlyOne
<1>4. w \in Written  BY <1>2, OnlyWritten
<1>5. Fits(w)
  <2>1. /\ \A x : Member(x) # Share(l) /\ Conv(x) # Share(l) /\ Pair(x) # Share(l) /\ Asked(x) # Share(l)
        /\ \A x, z : Seat(x, z) # Share(l)
    BY RowKeys
  <2> QED  BY <1>1, <1>3, <2>1 DEF Fits
<1>6. w \in Written /\ Fits(w) /\ DOMAIN w = {Share(l)} /\ {Share(l)} \subseteq Row
      /\ w[Share(l)].conv = c /\ w[Share(l)].active = b
  BY <1>1, <1>2, <1>3, <1>4, <1>5
<1> QED  BY <1>6 DEF v

\* A link is made or revoked, while no one else writes links of its conversation.
LEMMA ShareKeeps ==
  ASSUME Sound, NEW t \in Request, UNCHANGED scene,
         NEW l \in Link, NEW c \in Conversation, Mutable(db, c), NEW b \in BOOLEAN,
         Share(l) \notin DOMAIN tx[t].writes, Free(t, Share(l)),
         \/ db[Share(l)].conv = None /\ b
         \/ db[Share(l)].active /\ db[Share(l)].conv = c /\ ~b,
         b => \A m \in Link : View(t)[Share(m)].active => View(t)[Share(m)].conv # c,
         \A m \in Link, o \in Request \ {t} :
           Share(m) \in DOMAIN tx[o].writes => tx[o].writes[Share(m)].conv # c,
         NEW T \in SUBSET {Share(l)},
         NEW w, w = Only(Share(l), [conv |-> c, active |-> b]),
         NEW y, Becomes(t, y), WroteTo(tx[t], y, w, T), tx[t].pc \notin {"idle", "check"}, y.pc \notin {"idle", "check"},
         OpOfStep(y), WrittenBy(y), StillSo(y, db)
  PROVE  Sound'
<1> DEFINE v == [conv |-> c, active |-> b]
<1>1. /\ w \in Written /\ Fits(w) /\ DOMAIN w = {Share(l)} /\ Share(l) \in Row
      /\ w[Share(l)].conv = c /\ w[Share(l)].active = b
  BY ShareOnly
<1>2. RowsOK(tx[t].writes, tx[t].told, db) /\ IsTables(db)  BY TxFields DEF Sound, TxOK, TablesOK
<1>3. v.conv = c /\ v.active = b  OBVIOUS
<1>4. /\ \A x : Share(l) # Conv(x) /\ Share(l) # Pair(x) /\ Share(l) # Member(x) /\ Share(l) # Asked(x)
      /\ \A x, z : Share(l) # Seat(x, z)
      /\ \A x : Share(l) = Share(x) => x = l
  BY RowKeys
<1>5. OneLive(Overlay(Overlay(w, tx[t].writes), db))
  <2> DEFINE n == Overlay(w, tx[t].writes)  z == Overlay(n, db)
  <2>1. DOMAIN n = {Share(l)} \cup DOMAIN tx[t].writes /\ n[Share(l)] = w[Share(l)]
        /\ \A r \in DOMAIN tx[t].writes : r # Share(l) => n[r] = tx[t].writes[r]
    BY <1>1 DEF Overlay
  <2> HIDE DEF n
  <2>2. z[Share(l)].conv = c /\ z[Share(l)].active = b  BY <1>1, <1>2, <2>1, Sight
  <2>3. ASSUME NEW m \in Link, m # l PROVE z[Share(m)] = View(t)[Share(m)]
    <3>1. Share(m) # Share(l) /\ Share(m) \in Row  BY <1>4, <2>3, RowsOfTables
    <3>2. CASE Share(m) \in DOMAIN tx[t].writes  BY <1>2, <2>1, <3>1, <3>2, Sight, SightOf
    <3>3. CASE Share(m) \notin DOMAIN tx[t].writes  BY <1>2, <2>1, <3>1, <3>3, Sight, SightOf
    <3> QED  BY <3>2, <3>3
  <2>4. OneLive(View(t))  BY <1>2 DEF RowsOK, View
  <2> HIDE DEF z
  <2>5. OneLive(z)  BY <2>2, <2>3, <2>4 DEF OneLive
  <2> QED  BY <2>5 DEF n, z
<1>6. c \in Conversation /\ db[Conv(c)].scope # "none"  BY DEF Mutable, MembersOnly
<1>7. \A x, z : Seat(x, z) \notin T  BY <1>4
<1>8. w = Only(Share(l), v)  OBVIOUS
<1> HIDE DEF v
<1>9. \A x \in Link : Share(l) = Share(x) =>
           /\ v.conv \in Conversation /\ Mutable(db, v.conv) /\ db[Conv(v.conv)].scope # "none"
           /\ \/ db[Share(l)].conv = None /\ v.active
              \/ db[Share(l)].active /\ db[Share(l)].conv = v.conv /\ ~v.active
  BY <1>3, <1>6
<1>10. RowsOK(Overlay(w, tx[t].writes), tx[t].told \cup T, db)
  <2>1. PICK x : x = tx[t].writes  OBVIOUS
  <2>2. Share(l) \notin DOMAIN x  BY <2>1
  <2>3. RowsOK(x, tx[t].told, db) /\ OneLive(Overlay(Overlay(Only(Share(l), v), x), db))
    BY <1>2, <1>5, <1>8, <2>1
  <2>4. \A e : Share(l) # Conv(e) /\ Share(l) # Pair(e)  BY <1>4
  <2>5. \A e, z : Share(l) # Seat(e, z) /\ Seat(e, z) \notin T  BY <1>4, <1>7
  <2>6. \A u \in User : Share(l) = Member(u) => Share(l) \in T  BY <1>4
  <2>7. \A i \in Invite : Share(l) = Asked(i) => v.to # None /\ db[Share(l)].to \in {None, v.to}  BY <1>4
  <2>8. RowsOK(Overlay(Only(Share(l), v), x), tx[t].told \cup T, db)
    BY <1>9, <2>2, <2>3, <2>4, <2>5, <2>6, <2>7, AddOther
  <2> QED  BY <1>8, <2>1, <2>8
<1>11. \A r \in DOMAIN w : Free(t, r)  BY <1>1
<1>12. \A k, m \in Link, o \in Request \ {t} :
           (Share(k) \in DOMAIN w /\ Share(m) \in DOMAIN tx[o].writes) =>
             w[Share(k)].conv # tx[o].writes[Share(m)].conv
  BY <1>1, <1>4
<1>13. PICK d \in Written : d = w  BY <1>1
<1>14. /\ Fits(d) /\ RowsOK(Overlay(d, tx[t].writes), tx[t].told \cup T, db) /\ WroteTo(tx[t], y, d, T)
       /\ \A r \in DOMAIN d : Free(t, r)
  BY <1>1, <1>10, <1>11, <1>13
<1>15. \A k, m \in Link, o \in Request \ {t} :
           (Share(k) \in DOMAIN d /\ Share(m) \in DOMAIN tx[o].writes) =>
             d[Share(k)].conv # tx[o].writes[Share(m)].conv
  BY <1>12, <1>13
<1> QED  BY <1>14, <1>15, WroteKeeps

LEMMA LockLinkKeeps ==
  ASSUME Sound, NEW t \in Request, LockLink(t), UNCHANGED scene
  PROVE  Sound'
<1> DEFINE c == tx[t].do.conv
<1>1. tx[t] \in TxType /\ TxOK(tx[t], db) /\ tx[t].pc = "lock link" /\ "done" \in Step /\ "new link" \in Step
  BY TxFields DEF LockLink, At, Step
<1>2. /\ tx[t].do.op \in {"getShareLink", "rotateShareLink"} /\ c \in Conversation /\ Mutable(db, c)
      /\ \A l \in tx[t].todo : l \in Link /\ db[Share(l)].conv = c
  BY <1>1, TxFields, CommandFields DEF TxOK, OpOfStep, StillSo
<1>3. tx[t].writes = NoRows /\ DOMAIN tx[t].writes = {}  BY <1>1, NoRowsWritten DEF TxOK, WrittenBy, Returned
<1>4. PICK l \in tx[t].todo :
        /\ Free(t, Share(l))
        /\ \/ Goto(t, "new link")
           \/ Becomes(t, [tx[t] EXCEPT !.locks = @ \cup {Share(l)}, !.pc = "done"])
           \/ /\ View(t)[Share(l)].active
              /\ Becomes(t, [Wrote(t, Only(Share(l), [conv |-> c, active |-> FALSE]), {}) EXCEPT !.pc = "new link"])
  BY DEF LockLink
<1>5. CASE Goto(t, "new link")  BY <1>1, <1>5, PlainGotoKeeps
<1>6. l \in Link /\ Share(l) \in Row /\ db[Share(l)].conv = c /\ c # None /\ View(t)[Share(l)] = db[Share(l)]
  BY <1>2, <1>3, <1>4, RowsOfTables, NoneAssumption, SightOf
<1>7. ASSUME Becomes(t, [tx[t] EXCEPT !.locks = @ \cup {Share(l)}, !.pc = "done"]) PROVE Sound'
  <2> DEFINE y == [tx[t] EXCEPT !.locks = @ \cup {Share(l)}, !.pc = "done"]
  <2>1. /\ y \in TxType /\ y.pc = "done" /\ y.do = tx[t].do /\ y.writes = tx[t].writes
        /\ y.locks = tx[t].locks \cup {Share(l)} /\ y.told = tx[t].told /\ y.due = tx[t].due
    BY <1>1, <1>6 DEF TxType
  <2>2. Becomes(t, y)  BY <1>7
  <2> HIDE DEF y
  <2>3. OpOfStep(y) /\ WrittenBy(y) /\ StillSo(y, db)
    BY <1>1, <1>2, <2>1 DEF OpOfStep, WrittenBy, StillSo, Returned
  <2>4. LocksOK(y.writes, y.locks, db)
    <3>1. LocksOK(tx[t].writes, tx[t].locks, db)  BY <1>1 DEF TxOK
    <3>2. /\ \A x : Conv(x) # Share(l) /\ \A u : Seat(x, u) # Share(l)
          /\ \A i : Asked(i) # Share(l)
          /\ \A m : Share(m) = Share(l) => m = l
      BY RowKeys
    <3> QED  BY <1>6, <2>1, <3>1, <3>2 DEF LocksOK
  <2> QED  BY <1>1, <1>4, <2>1, <2>2, <2>3, <2>4, ReadKeeps
<1>8. ASSUME View(t)[Share(l)].active,
             Becomes(t, [Wrote(t, Only(Share(l), [conv |-> c, active |-> FALSE]), {}) EXCEPT !.pc = "new link"])
      PROVE  Sound'
  <2> DEFINE w == Only(Share(l), [conv |-> c, active |-> FALSE])
             y == [Wrote(t, w, {}) EXCEPT !.pc = "new link"]
  <2>1. w \in Written /\ DOMAIN w = {Share(l)} /\ {} \subseteq Row  BY <1>2, <1>6, ShareOnly
  <2>2. w = Only(Share(l), [conv |-> c, active |-> FALSE])  OBVIOUS
  <2>3. Becomes(t, y)  BY <1>8
  <2> HIDE DEF w
  <2>10. y = Moved(Wrote(t, w, {}), "new link")  BY DEF Moved
  <2> HIDE DEF y
  <2>12. w \in Written /\ {} \subseteq Row /\ "new link" \in Step  BY <1>1, <2>1
  <2>13. WroteTo(tx[t], y, w, {})  BY <2>10, <2>12, WroteMoved
  <2>14. y.pc = "new link"  BY <2>10, <2>12, WroteMoved
  <2>4. WroteTo(tx[t], y, w, {}) /\ y.pc = "new link"  BY <2>13, <2>14
  <2>5. DOMAIN y.writes = {Share(l)} /\ y.do = tx[t].do  BY <1>3, <2>1, <2>4 DEF Overlay, WroteTo
  <2>6. OpOfStep(y) /\ WrittenBy(y) /\ StillSo(y, db)
    BY <1>1, <1>2, <1>6, <2>4, <2>5 DEF OpOfStep, WrittenBy, StillSo, Returned
  <2>7. ASSUME NEW m \in Link, NEW o \in Request \ {t}, Share(m) \in DOMAIN tx[o].writes,
               tx[o].writes[Share(m)].conv = c
        PROVE  FALSE
    <3>1. TxOK(tx[o], db) /\ IsTables(db) /\ OneLive(db)  BY DEF Sound, TablesOK
    <3>2. /\ LinksTurn(tx[o].writes, db) /\ OneLive(Overlay(tx[o].writes, db))
          /\ DOMAIN tx[o].writes \subseteq tx[o].locks
      BY <3>1 DEF TxOK, RowsOK, LocksOK
    <3>3. Share(l) \notin DOMAIN tx[o].writes  BY <1>4, <3>2 DEF Free, Others
    <3>4. m # l  BY <2>7, <3>3
    <3>5. db[Share(l)].active /\ db[Share(l)].conv = c  BY <1>6, <1>8
    <3>6. CASE tx[o].writes[Share(m)].active
      <4>1. /\ Overlay(tx[o].writes, db)[Share(m)] = tx[o].writes[Share(m)]
            /\ Overlay(tx[o].writes, db)[Share(l)] = db[Share(l)]
        BY <1>6, <2>7, <3>1, <3>3, Sight
      <4> QED  BY <1>2, <1>6, <2>7, <3>2, <3>4, <3>5, <3>6, <4>1 DEF OneLive
    <3>7. CASE ~tx[o].writes[Share(m)].active
      <4>1. db[Share(m)].active /\ db[Share(m)].conv = c  BY <2>7, <3>2, <3>7 DEF LinksTurn
      <4> QED  BY <1>2, <1>6, <3>1, <3>4, <3>5, <4>1 DEF OneLive
    <3> QED  BY <3>6, <3>7
  <2>8. PICK T \in SUBSET {Share(l)} : T = {}  OBVIOUS
  <2>11. WroteTo(tx[t], y, w, T) /\ Share(l) \notin DOMAIN tx[t].writes  BY <1>3, <2>4, <2>8
  <2>9. db[Share(l)].active /\ db[Share(l)].conv = c /\ ~FALSE /\ FALSE \in BOOLEAN  BY <1>6, <1>8
  <2> QED  BY <1>1, <1>2, <1>4, <1>6, <2>2, <2>3, <2>4, <2>6, <2>7, <2>9, <2>11, ShareKeeps
<1> QED  BY <1>4, <1>5, <1>7, <1>8

LEMMA NewLinkKeeps ==
  ASSUME Sound, NEW t \in Request, NewLink(t), UNCHANGED scene
  PROVE  Sound'
<1> DEFINE c == tx[t].do.conv
<1>1. tx[t] \in TxType /\ TxOK(tx[t], db) /\ tx[t].pc = "new link" /\ "done" \in Step
  BY TxFields DEF NewLink, At, Step
<1>2. tx[t].do.op \in {"getShareLink", "rotateShareLink"} /\ c \in Conversation /\ Mutable(db, c)
  BY <1>1, TxFields, CommandFields DEF TxOK, OpOfStep, StillSo
<1>3. ASSUME NEW l \in Link, FreshLink(l), ActiveLinks(View(t), c) = {},
             Becomes(t, [Wrote(t, Only(Share(l), [conv |-> c, active |-> TRUE]), {Share(l)}) EXCEPT !.pc = "done"])
      PROVE  Sound'
  <2> DEFINE w == Only(Share(l), [conv |-> c, active |-> TRUE])
             y == [Wrote(t, w, {Share(l)}) EXCEPT !.pc = "done"]
  <2>1. w \in Written /\ DOMAIN w = {Share(l)} /\ {Share(l)} \subseteq Row  BY <1>2, ShareOnly
  <2>2. w = Only(Share(l), [conv |-> c, active |-> TRUE])  OBVIOUS
  <2>3. Becomes(t, y)  BY <1>3
  <2> HIDE DEF w
  <2>10. y = Moved(Wrote(t, w, {Share(l)}), "done")  BY DEF Moved
  <2> HIDE DEF y
  <2>11. w \in Written /\ {Share(l)} \subseteq Row /\ "done" \in Step  BY <1>1, <2>1
  <2>12. WroteTo(tx[t], y, w, {Share(l)})  BY <2>10, <2>11, WroteMoved
  <2>13. y.pc = "done"  BY <2>10, <2>11, WroteMoved
  <2>4. WroteTo(tx[t], y, w, {Share(l)}) /\ y.pc = "done"  BY <2>12, <2>13
  <2>5. OpOfStep(y) /\ WrittenBy(y) /\ StillSo(y, db)
    BY <1>1, <1>2, <2>4 DEF OpOfStep, WrittenBy, StillSo, Returned, WroteTo
  <2>6. Free(t, Share(l)) /\ db[Share(l)].conv = None /\ Share(l) \notin DOMAIN tx[t].writes
    BY <1>3, FreshFree DEF FreshLink
  <2>7. ASSUME NEW m \in Link, View(t)[Share(m)].active PROVE View(t)[Share(m)].conv # c
    <3>1. View(t)[Share(m)] \in ShareRow  BY SightOf DEF IsTables
    <3> QED  BY <1>3, <2>7, <3>1, LinkFields
  <2>8. \A m \in Link, o \in Request \ {t} :
           Share(m) \in DOMAIN tx[o].writes => tx[o].writes[Share(m)].conv # c
    BY DEF NewLink, Others
  <2>9. {Share(l)} \in SUBSET {Share(l)} /\ TRUE \in BOOLEAN  OBVIOUS
  <2> QED  BY <1>1, <1>2, <2>2, <2>3, <2>4, <2>5, <2>6, <2>7, <2>8, <2>9, ShareKeeps
<1> QED  BY <1>3, RollbackKeeps DEF NewLink

\* A member or an invite is written.
LEMMA OtherKeeps ==
  ASSUME Sound, NEW t \in Request, UNCHANGED scene,
         NEW r \in Row, NEW b \in Cell, Fits(Only(r, b)), r \notin DOMAIN tx[t].writes, Free(t, r),
         (\E u : r = Member(u)) \/ (\E i : r = Asked(i)),
         NEW T \in SUBSET {r}, (\E u : r = Member(u)) => T = {r},
         \A i \in Invite : r = Asked(i) => b.to # None /\ db[r].to \in {None, b.to},
         NEW w, w = Only(r, b),
         NEW y, Becomes(t, y), WroteTo(tx[t], y, w, T),
         tx[t].pc \notin {"idle", "check"}, y.pc \notin {"idle", "check"},
         OpOfStep(y), WrittenBy(y), StillSo(y, db)
  PROVE  Sound'
<1>1. PICK x : x = tx[t].writes  OBVIOUS
<1>2. RowsOK(x, tx[t].told, db) /\ IsTables(db)  BY <1>1, TxFields DEF Sound, TxOK, TablesOK
<1>3. /\ \A e : r # Conv(e) /\ r # Pair(e) /\ r # Share(e)
      /\ \A e, z : r # Seat(e, z)
  BY RowKeys
<1>4. \A e : r # Conv(e) /\ r # Pair(e)  BY <1>3
<1>5. \A e, z : r # Seat(e, z) /\ Seat(e, z) \notin T  BY <1>3
<1>6. \A u \in User : r = Member(u) => r \in T  OBVIOUS
<1>7. \A l \in Link : r # Share(l)  BY <1>3
<1>8. OneLive(Overlay(Overlay(Only(r, b), x), db))
  <2>1. OneLive(Overlay(x, db))  BY <1>2 DEF RowsOK
  <2> QED  BY <1>2, <1>7, <2>1, LiveBesides
<1>9. \A l \in Link : r = Share(l) =>
           /\ b.conv \in Conversation /\ Mutable(db, b.conv) /\ db[Conv(b.conv)].scope # "none"
           /\ \/ db[r].conv = None /\ b.active
              \/ db[r].active /\ db[r].conv = b.conv /\ ~b.active
  BY <1>7
<1>10. r \notin DOMAIN x  BY <1>1
<1>11. RowsOK(Overlay(Only(r, b), x), tx[t].told \cup T, db)
  BY <1>2, <1>4, <1>5, <1>6, <1>8, <1>9, <1>10, AddOther
<1>12. PICK d \in Written : d = w  BY OnlyWritten
<1>13. DOMAIN d = {r}  BY <1>12, OnlyOne
<1>14. RowsOK(Overlay(d, tx[t].writes), tx[t].told \cup T, db)  BY <1>1, <1>11, <1>12
<1>15. Fits(d) /\ WroteTo(tx[t], y, d, T) /\ \A s \in DOMAIN d : Free(t, s)  BY <1>12, <1>13
<1>16. \A k, m \in Link, o \in Request \ {t} :
           (Share(k) \in DOMAIN d /\ Share(m) \in DOMAIN tx[o].writes) =>
             d[Share(k)].conv # tx[o].writes[Share(m)].conv
  BY <1>7, <1>13
<1> QED  BY <1>14, <1>15, <1>16, WroteKeeps

LEMMA AskedOnly ==
  ASSUME NEW i \in Invite, NEW b \in AskedRow
  PROVE  LET w == Only(Asked(i), b)
         IN /\ Asked(i) \in Row /\ b \in Cell /\ Fits(w) /\ w \in Written /\ DOMAIN w = {Asked(i)}
<1>1. Asked(i) \in Row /\ b \in Cell  BY RowsOfTables DEF Cell
<1>2. DOMAIN Only(Asked(i), b) = {Asked(i)} /\ Only(Asked(i), b)[Asked(i)] = b  BY OnlyOne
<1>3. Fits(Only(Asked(i), b))
  <2>1. /\ \A x : Member(x) # Asked(i) /\ Conv(x) # Asked(i) /\ Pair(x) # Asked(i) /\ Share(x) # Asked(i)
        /\ \A x, z : Seat(x, z) # Asked(i)
    BY RowKeys
  <2> QED  BY <1>2, <2>1 DEF Fits
<1> QED  BY <1>1, <1>2, <1>3, OnlyWritten

LEMMA MemberOnly ==
  ASSUME NEW u \in User, NEW b \in MemberRow
  PROVE  LET w == Only(Member(u), b)
         IN /\ Member(u) \in Row /\ b \in Cell /\ Fits(w) /\ w \in Written /\ DOMAIN w = {Member(u)}
<1>1. Member(u) \in Row /\ b \in Cell  BY RowsOfTables DEF Cell
<1>2. DOMAIN Only(Member(u), b) = {Member(u)} /\ Only(Member(u), b)[Member(u)] = b  BY OnlyOne
<1>3. Fits(Only(Member(u), b))
  <2>1. /\ \A x : Asked(x) # Member(u) /\ Conv(x) # Member(u) /\ Pair(x) # Member(u) /\ Share(x) # Member(u)
        /\ \A x, z : Seat(x, z) # Member(u)
    BY RowKeys
  <2> QED  BY <1>2, <2>1 DEF Fits
<1> QED  BY <1>1, <1>2, <1>3, OnlyWritten

LEMMA InsertInviteKeeps ==
  ASSUME Sound, NEW t \in Request, InsertInvite(t), UNCHANGED scene
  PROVE  Sound'
<1>1. tx[t] \in TxType /\ TxOK(tx[t], db) /\ tx[t].pc = "insert invite" /\ "done" \in Step
  BY TxFields DEF InsertInvite, At, Step
<1>2. tx[t].do.op = "createInvite" /\ tx[t].do.to \in User \cup {Anyone}
  BY <1>1, TxFields, CommandFields DEF TxOK, OpOfStep
<1>3. PICK i \in Invite :
        /\ FreshInvite(i)
        /\ Becomes(t, [Wrote(t, Only(Asked(i), [to |-> tx[t].do.to, accepted |-> FALSE]), {Asked(i)})
                       EXCEPT !.pc = "done"])
  BY DEF InsertInvite
<1>4. PICK b \in AskedRow : b = [to |-> tx[t].do.to, accepted |-> FALSE]  BY <1>2 DEF AskedRow
<1>5. b.to = tx[t].do.to /\ tx[t].do.to # None  BY <1>2, <1>4, NoneAssumption
<1> DEFINE w == Only(Asked(i), b)
           y == Moved(Wrote(t, w, {Asked(i)}), "done")
<1>6. Asked(i) \in Row /\ b \in Cell /\ Fits(w) /\ w \in Written /\ {Asked(i)} \subseteq Row /\ "done" \in Step
  BY <1>1, AskedOnly
<1>7. Becomes(t, y)  BY <1>3, <1>4 DEF Moved
<1>8. w = Only(Asked(i), b)  OBVIOUS
<1> HIDE DEF w
<1>9. WroteTo(tx[t], y, w, {Asked(i)})  BY <1>6, WroteMoved
<1>10. y.pc = "done"  BY <1>6, WroteMoved
<1> HIDE DEF y
<1>11. y.do = tx[t].do  BY <1>9 DEF WroteTo
<1>12. OpOfStep(y) /\ WrittenBy(y) /\ StillSo(y, db)
  BY <1>2, <1>10, <1>11 DEF OpOfStep, WrittenBy, StillSo, Returned
<1>13. Asked(i) \notin DOMAIN tx[t].writes /\ Free(t, Asked(i)) /\ db[Asked(i)].to = None
  BY <1>3, FreshFree DEF FreshInvite
<1>14. \A j \in Invite : Asked(i) = Asked(j) => b.to # None /\ db[Asked(i)].to \in {None, b.to}
  BY <1>5, <1>13
<1>15. (\E u : Asked(i) = Member(u)) => {Asked(i)} = {Asked(i)}  OBVIOUS
<1>16. PICK T \in SUBSET {Asked(i)} : T = {Asked(i)}  OBVIOUS
<1>17. WroteTo(tx[t], y, w, T) /\ ((\E u : Asked(i) = Member(u)) => T = {Asked(i)})  BY <1>9, <1>16
<1>18. \E j : Asked(i) = Asked(j)  OBVIOUS
<1> QED  BY <1>1, <1>6, <1>7, <1>8, <1>10, <1>12, <1>13, <1>14, <1>17, <1>18, OtherKeeps

\* A membership is the first row written.
MemberWritten(x, y, u, b) ==
  /\ y.do = x.do /\ y.seen = x.seen /\ y.locks = x.locks \cup {Member(u)}
  /\ DOMAIN y.writes = {Member(u)} /\ y.writes[Member(u)] = b

LEMMA MemberWrites ==
  ASSUME NEW x, x.writes = NoRows, NEW u, NEW b, NEW y, WroteTo(x, y, Only(Member(u), b), {Member(u)})
  PROVE  MemberWritten(x, y, u, b)
<1> DEFINE w == Only(Member(u), b)
<1>1. DOMAIN w = {Member(u)} /\ w[Member(u)] = b  BY OnlyOne
<1> HIDE DEF w
<1>2. y.locks = x.locks \cup {Member(u)} /\ y.do = x.do /\ y.seen = x.seen  BY <1>1 DEF WroteTo, w
<1>3. DOMAIN y.writes = {Member(u)} /\ y.writes[Member(u)] = b
  <2>1. y.writes = Overlay(w, NoRows)  BY DEF WroteTo, w
  <2> QED  BY <1>1, <2>1, NoRowsWritten DEF Overlay
<1> QED  BY <1>2, <1>3 DEF MemberWritten

LEMMA MemberKeeps ==
  ASSUME Sound, NEW t \in Request, UNCHANGED scene,
         NEW u \in User, NEW b \in MemberRow, tx[t].writes = NoRows, Free(t, Member(u)),
         NEW y, WroteTo(tx[t], y, Only(Member(u), b), {Member(u)}), Becomes(t, y),
         tx[t].pc \notin {"idle", "check"}, y.pc \notin {"idle", "check"},
         OpOfStep(y), WrittenBy(y), StillSo(y, db)
  PROVE  Sound'
<1>1. Member(u) \in Row /\ b \in Cell /\ Fits(Only(Member(u), b))  BY MemberOnly
<1>2. Member(u) \notin DOMAIN tx[t].writes  BY NoRowsWritten
<1>3. \A i \in Invite : Member(u) = Asked(i) => b.to # None /\ db[Member(u)].to \in {None, b.to}  BY RowKeys
<1>4. PICK T \in SUBSET {Member(u)} : T = {Member(u)}  OBVIOUS
<1>5. PICK w : w = Only(Member(u), b)  OBVIOUS
<1>6. WroteTo(tx[t], y, w, T) /\ ((\E x : Member(u) = Member(x)) => T = {Member(u)})  BY <1>4, <1>5
<1>7. \E x : Member(u) = Member(x)  OBVIOUS
<1> QED  BY <1>1, <1>2, <1>3, <1>5, <1>6, <1>7, OtherKeeps

LEMMA ReadMembershipKeeps ==
  ASSUME Sound, NEW t \in Request, ReadMembership(t), UNCHANGED scene
  PROVE  Sound'
<1> DEFINE u == tx[t].do.by  m == Member(u)  row == View(t)[m]
<1>1. tx[t] \in TxType /\ TxOK(tx[t], db) /\ tx[t].pc = "membership" /\ "accept" \in Step
  BY TxFields DEF ReadMembership, At, Step
<1>2. tx[t].do.op = "acceptInvite" /\ u \in User  BY <1>1, TxFields, CommandFields DEF TxOK, OpOfStep
<1>3. /\ Asked(tx[t].do.invite) \in tx[t].locks /\ db[Asked(tx[t].do.invite)].to # None
      /\ tx[t].writes = NoRows
  BY <1>1 DEF TxOK, StillSo, WrittenBy, Returned
<1>4. m \in Row /\ row \in MemberRow  BY <1>2, RowsOfTables, SightOf DEF IsTables
<1>5. CASE Goto(t, "create membership")  BY <1>1, <1>5, PlainGotoKeeps
<1>6. ASSUME Free(t, m), Becomes(t, [tx[t] EXCEPT !.locks = @ \cup {m}, !.pc = "accept"])
      PROVE  Sound'
  <2> DEFINE y == [tx[t] EXCEPT !.locks = @ \cup {m}, !.pc = "accept"]
  <2>1. /\ y \in TxType /\ y.pc = "accept" /\ y.do = tx[t].do /\ y.writes = tx[t].writes
        /\ y.locks = tx[t].locks \cup {m} /\ y.told = tx[t].told /\ y.due = tx[t].due
    BY <1>1, <1>4 DEF TxType
  <2>2. Becomes(t, y)  BY <1>6
  <2> HIDE DEF y
  <2>3. OpOfStep(y) /\ StillSo(y, db)  BY <1>1, <1>2, <1>3, <2>1 DEF OpOfStep, StillSo, Returned
  <2>4. WrittenBy(y)  BY <1>3, <2>1, NoRowsWritten DEF WrittenBy, Returned
  <2>5. LocksOK(y.writes, y.locks, db)
    <3>1. LocksOK(tx[t].writes, tx[t].locks, db)  BY <1>1 DEF TxOK
    <3>2. /\ \A c : Conv(c) # m /\ \A x : Seat(c, x) # m
          /\ \A l : Share(l) # m /\ Asked(l) # m
      BY RowKeys
    <3> HIDE DEF m
    <3> QED  BY <2>1, <3>1, <3>2 DEF LocksOK
  <2> QED  BY <1>1, <1>6, <2>1, <2>2, <2>3, <2>4, <2>5, ReadKeeps
<1>7. ASSUME row.status # "none", Free(t, m),
             Becomes(t, [Wrote(t, Only(m, [row EXCEPT !.status = "active"]), {m}) EXCEPT !.pc = "accept"])
      PROVE  Sound'
  <2>1. PICK b \in MemberRow : b = [row EXCEPT !.status = "active"]
    <3> HIDE DEF row
    <3>1. row \in [role : Role, status : Status]
      <4>1. [role |-> "none", status |-> "none"].status = "none"  OBVIOUS
      <4> QED  BY <1>4, <1>7, <4>1 DEF MemberRow
    <3>2. "active" \in Status  BY DEF Status
    <3>3. [row EXCEPT !.status = "active"] \in [role : Role, status : Status]  BY <3>1, <3>2
    <3> QED  BY <3>3 DEF MemberRow
  <2>2. PICK y : y = Moved(Wrote(t, Only(m, b), {m}), "accept")  OBVIOUS
  <2>3. Becomes(t, y)  BY <1>7, <2>1, <2>2 DEF Moved
  <2>6. Only(m, b) \in Written /\ {m} \subseteq Row /\ "accept" \in Step  BY <1>1, <1>2, MemberOnly
  <2>7. WroteTo(tx[t], y, Only(m, b), {m})  BY <2>2, <2>6, WroteMoved
  <2>8. y.pc = "accept"  BY <2>2, <2>6, WroteMoved
  <2>9. MemberWritten(tx[t], y, u, b)  BY <1>3, <2>7, MemberWrites
  <2>5. OpOfStep(y) /\ WrittenBy(y) /\ StillSo(y, db)
    BY <1>2, <1>3, <2>8, <2>9 DEF MemberWritten, OpOfStep, WrittenBy, StillSo, Returned
  <2> QED  BY <1>1, <1>2, <1>3, <1>7, <2>3, <2>5, <2>7, <2>8, MemberKeeps
<1> QED  BY <1>5, <1>6, <1>7 DEF ReadMembership

LEMMA CreateMembershipKeeps ==
  ASSUME Sound, NEW t \in Request, CreateMembership(t), UNCHANGED scene
  PROVE  Sound'
<1> DEFINE u == tx[t].do.by  m == Member(u)
<1>1. tx[t] \in TxType /\ TxOK(tx[t], db) /\ tx[t].pc = "create membership" /\ "accept" \in Step
  BY TxFields DEF CreateMembership, At, Step
<1>2. tx[t].do.op = "acceptInvite" /\ u \in User  BY <1>1, TxFields, CommandFields DEF TxOK, OpOfStep
<1>3. /\ Asked(tx[t].do.invite) \in tx[t].locks /\ db[Asked(tx[t].do.invite)].to # None
      /\ tx[t].writes = NoRows
  BY <1>1 DEF TxOK, StillSo, WrittenBy, Returned
<1>4. ASSUME Free(t, m),
             Becomes(t, [Wrote(t, Only(m, [role |-> "member", status |-> "active"]), {m}) EXCEPT !.pc = "accept"])
      PROVE  Sound'
  <2>1. PICK b \in MemberRow : b = [role |-> "member", status |-> "active"]  BY DEF MemberRow, Role, Status
  <2>2. PICK y : y = Moved(Wrote(t, Only(m, b), {m}), "accept")  OBVIOUS
  <2>3. Becomes(t, y)  BY <1>4, <2>1, <2>2 DEF Moved
  <2>6. Only(m, b) \in Written /\ {m} \subseteq Row /\ "accept" \in Step  BY <1>1, <1>2, MemberOnly
  <2>7. WroteTo(tx[t], y, Only(m, b), {m})  BY <2>2, <2>6, WroteMoved
  <2>8. y.pc = "accept"  BY <2>2, <2>6, WroteMoved
  <2>9. MemberWritten(tx[t], y, u, b)  BY <1>3, <2>7, MemberWrites
  <2>5. OpOfStep(y) /\ WrittenBy(y) /\ StillSo(y, db)
    BY <1>2, <1>3, <2>8, <2>9 DEF MemberWritten, OpOfStep, WrittenBy, StillSo, Returned
  <2> QED  BY <1>1, <1>2, <1>3, <1>4, <2>3, <2>5, <2>7, <2>8, MemberKeeps
<1> QED  BY <1>4, RollbackKeeps DEF CreateMembership

LEMMA UpdateMemberKeeps ==
  ASSUME Sound, NEW t \in Request, UpdateMember(t), UNCHANGED scene
  PROVE  Sound'
<1> DEFINE u == tx[t].do.user  m == Member(u)  next == Patched(tx[t].do, tx[t].seen)
           pc == IF next.status = "active" THEN "done" ELSE "list rooms"
<1>1. tx[t] \in TxType /\ TxOK(tx[t], db) /\ tx[t].pc = "update" /\ pc \in Step /\ pc \in {"done", "list rooms"}
  BY TxFields DEF UpdateMember, At, Step
<1>2. /\ tx[t].do.op = "patchMember" /\ u \in User
      /\ tx[t].do.role \in Role \cup {"same"} /\ tx[t].do.status \in Status \cup {"same"}
  BY <1>1, TxFields, CommandFields DEF TxOK, OpOfStep
<1>3. /\ m \in tx[t].locks /\ tx[t].seen = db[m] /\ tx[t].seen.status # "none"
      /\ tx[t].writes = NoRows
  BY <1>1, <1>2 DEF TxOK, StillSo, WrittenBy, Returned
<1>4. PICK b \in MemberRow : b = next
  <2>1. PICK seen : seen = tx[t].seen  OBVIOUS
  <2>2. seen \in [role : Role, status : Status]
    <3>1. [role |-> "none", status |-> "none"].status = "none"  OBVIOUS
    <3>2. db[m] \in MemberRow  BY <1>2 DEF Sound, TablesOK, IsTables
    <3> QED  BY <1>3, <2>1, <3>1, <3>2 DEF MemberRow
  <2>3. next \in [role : Role, status : Status]  BY <1>2, <2>1, <2>2 DEF Patched
  <2> QED  BY <2>3 DEF MemberRow
<1>5. Free(t, m)  BY DEF UpdateMember
<1> HIDE DEF pc
<1>6. ASSUME Becomes(t, [Wrote(t, Only(m, next), {m}) EXCEPT !.pc = pc])
      PROVE  Sound'
  <2>1. PICK y : y = Moved(Wrote(t, Only(m, b), {m}), pc)  OBVIOUS
  <2>2. Becomes(t, y)  BY <1>4, <1>6, <2>1 DEF Moved
  <2>6. Only(m, b) \in Written /\ {m} \subseteq Row /\ pc \in Step  BY <1>1, <1>2, MemberOnly
  <2>7. WroteTo(tx[t], y, Only(m, b), {m})  BY <2>1, <2>6, WroteMoved
  <2>8. y.pc = pc  BY <2>1, <2>6, WroteMoved
  <2>9. MemberWritten(tx[t], y, u, b)  BY <1>3, <2>7, MemberWrites
  <2>3. OpOfStep(y) /\ WrittenBy(y) /\ StillSo(y, db)
    <3>1. OpOfStep(y)  BY <1>1, <1>2, <2>8, <2>9 DEF MemberWritten, OpOfStep
    <3>2. WrittenBy(y)  BY <1>1, <2>8, <2>9 DEF MemberWritten, WrittenBy, Returned
    <3>3. StillSo(y, db)  BY <1>1, <1>2, <1>3, <1>4, <2>8, <2>9 DEF MemberWritten, StillSo, Returned
    <3> QED  BY <3>1, <3>2, <3>3
  <2>4. y.pc \notin {"idle", "check"} /\ tx[t].pc \notin {"idle", "check"}  BY <1>1, <2>8
  <2> QED  BY <1>2, <1>3, <1>5, <2>2, <2>3, <2>4, <2>7, MemberKeeps
<1> QED  BY <1>6, RollbackKeeps DEF UpdateMember, pc

LEMMA MarkAcceptedKeeps ==
  ASSUME Sound, NEW t \in Request, MarkAccepted(t), UNCHANGED scene
  PROVE  Sound'
<1> DEFINE i == tx[t].do.invite  a == Asked(i)
<1>1. tx[t] \in TxType /\ TxOK(tx[t], db) /\ tx[t].pc = "accept" /\ "done" \in Step
  BY TxFields DEF MarkAccepted, At, Step
<1>2. tx[t].do.op = "acceptInvite" /\ i \in Invite  BY <1>1, TxFields, CommandFields DEF TxOK, OpOfStep
<1>3. /\ a \in tx[t].locks /\ db[a].to # None
      /\ DOMAIN tx[t].writes \subseteq {Member(tx[t].do.by)}
  BY <1>1 DEF TxOK, StillSo, WrittenBy
<1>4. a \in Row /\ a \notin DOMAIN tx[t].writes  BY <1>2, <1>3, RowsOfTables, RowKeys
<1>5. View(t)[a] = db[a] /\ db[a] \in AskedRow  BY <1>2, <1>4, SightOf DEF Sound, TablesOK, IsTables
<1>6. Free(t, a)
  <2>1. ASSUME NEW o \in Request \ {t} PROVE a \notin tx[o].locks  BY <1>3 DEF Sound, Apart
  <2> QED  BY <2>1 DEF Free, Others
<1>7. CASE Goto(t, "done")  BY <1>1, <1>7, PlainGotoKeeps
<1>8. ASSUME Becomes(t, [Wrote(t, Only(a, [View(t)[a] EXCEPT !.accepted = TRUE]), {}) EXCEPT !.pc = "done"])
      PROVE  Sound'
  <2>1. PICK b \in AskedRow : b = [View(t)[a] EXCEPT !.accepted = TRUE] /\ b.to = db[a].to
    <3>1. PICK x : x = db[a]  OBVIOUS
    <3>2. x \in [to : User \cup {Anyone}, accepted : BOOLEAN]
      <4>1. [to |-> None, accepted |-> FALSE].to = None  OBVIOUS
      <4> QED  BY <1>3, <1>5, <3>1, <4>1 DEF AskedRow
    <3>3. [x EXCEPT !.accepted = TRUE] \in [to : User \cup {Anyone}, accepted : BOOLEAN]
          /\ [x EXCEPT !.accepted = TRUE].to = x.to
      BY <3>2
    <3> QED  BY <1>5, <3>1, <3>3 DEF AskedRow
  <2> DEFINE w == Only(a, b)
             y == Moved(Wrote(t, w, {}), "done")
  <2>2. a \in Row /\ b \in Cell /\ Fits(w) /\ w \in Written /\ {} \subseteq Row /\ "done" \in Step
    BY <1>1, <1>2, AskedOnly
  <2>3. Becomes(t, y)  BY <1>8, <2>1 DEF Moved
  <2>4. w = Only(a, b) /\ Fits(Only(a, b))  BY <2>2
  <2> HIDE DEF w
  <2>5. WroteTo(tx[t], y, w, {})  BY <2>2, WroteMoved
  <2>6. y.pc = "done"  BY <2>2, WroteMoved
  <2> HIDE DEF y
  <2>7. y.do = tx[t].do  BY <2>5 DEF WroteTo
  <2>8. OpOfStep(y) /\ WrittenBy(y) /\ StillSo(y, db)
    BY <1>2, <2>6, <2>7 DEF OpOfStep, WrittenBy, StillSo, Returned
  <2>9. \A j \in Invite : a = Asked(j) => b.to # None /\ db[a].to \in {None, b.to}  BY <1>3, <2>1
  <2>10. PICK T \in SUBSET {a} : T = {}  OBVIOUS
  <2>11. WroteTo(tx[t], y, w, T) /\ ((\E x : a = Member(x)) => T = {a})  BY <2>5, <2>10, RowKeys
  <2>12. \E j : a = Asked(j)  OBVIOUS
  <2>13. tx[t].pc \notin {"idle", "check"} /\ y.pc \notin {"idle", "check"}  BY <1>1, <2>6
  <2> HIDE DEF a
  <2> QED  BY <1>4, <1>6, <2>2, <2>3, <2>4, <2>8, <2>9, <2>11, <2>12, <2>13, OtherKeeps
<1> QED  BY <1>7, <1>8 DEF MarkAccepted

\* The rows w of a new conversation, row by row.
NewRows(w, c, l, do) ==
  /\ \A x : Member(x) \notin DOMAIN w /\ Asked(x) \notin DOMAIN w
  /\ \A d : Conv(d) \in DOMAIN w <=> d = c
  /\ \A d, x : Seat(d, x) \in DOMAIN w <=> (d = c /\ do.scope # "wide" /\ x \in Everyone(do))
  /\ \A p : Pair(p) \in DOMAIN w <=> (DirectMessage(do) /\ p = Everyone(do))
  /\ \A k : Share(k) \in DOMAIN w <=> (WithLink(do) /\ k = l)
  /\ w[Conv(c)] = [scope |-> do.scope, creator |-> do.by]
  /\ \A x : Seat(c, x) \in DOMAIN w => w[Seat(c, x)] = TRUE
  /\ DirectMessage(do) => w[Pair(Everyone(do))] = c
  /\ WithLink(do) => w[Share(l)] = [conv |-> c, active |-> TRUE]

LEMMA NewConversationRows ==
  ASSUME NEW c, NEW l, NEW do
  PROVE  NewRows(NewConversation(c, l, do), c, l, do)
<1> DEFINE E     == Everyone(do)
           row   == Only(Conv(c), [scope |-> do.scope, creator |-> do.by])
           seats == [r \in {Seat(c, u) : u \in E} |-> TRUE]
           share == Only(Share(l), [conv |-> c, active |-> TRUE])
           pair  == Only(Pair(E), c)
           w     == NewConversation(c, l, do)
<1>1. DOMAIN row = {Conv(c)} /\ row[Conv(c)] = [scope |-> do.scope, creator |-> do.by]
  <2>1. PICK b : b = [scope |-> do.scope, creator |-> do.by]  OBVIOUS
  <2>2. DOMAIN Only(Conv(c), b) = {Conv(c)} /\ Only(Conv(c), b)[Conv(c)] = b  BY OnlyOne
  <2> QED  BY <2>1, <2>2
<1>2. DOMAIN seats = {Seat(c, u) : u \in E} /\ \A r \in DOMAIN seats : seats[r] = TRUE  OBVIOUS
<1>3. DOMAIN share = {Share(l)} /\ share[Share(l)] = [conv |-> c, active |-> TRUE]  BY OnlyOne
<1>4. DOMAIN pair = {Pair(E)} /\ pair[Pair(E)] = c  BY OnlyOne
<1>5. \A x, y : Seat(x, y) \in DOMAIN seats <=> (x = c /\ y \in E)
  <2>1. \A x, y, u : Seat(x, y) = Seat(c, u) => (x = c /\ y = u)  BY RowKeys
  <2> QED  BY <1>2, <2>1
<1>6. /\ \A x, y : Conv(x) # Pair(y) /\ Conv(x) # Share(y) /\ Conv(x) # Member(y) /\ Conv(x) # Asked(y)
      /\ \A x, y : Pair(x) # Share(y) /\ Pair(x) # Member(y) /\ Pair(x) # Asked(y)
      /\ \A x, y : Share(x) # Member(y) /\ Share(x) # Asked(y)
      /\ \A x, y, z : /\ Seat(x, y) # Conv(z) /\ Seat(x, y) # Pair(z) /\ Seat(x, y) # Share(z)
                      /\ Seat(x, y) # Member(z) /\ Seat(x, y) # Asked(z)
      /\ \A x, y : (Conv(x) = Conv(y) => x = y) /\ (Pair(x) = Pair(y) => x = y) /\ (Share(x) = Share(y) => x = y)
  BY RowKeys
<1>7. \A x : Conv(x) \notin DOMAIN seats /\ Pair(x) \notin DOMAIN seats /\ Share(x) \notin DOMAIN seats
             /\ Member(x) \notin DOMAIN seats /\ Asked(x) \notin DOMAIN seats
  BY <1>2, <1>6
<1> HIDE DEF row, seats, share, pair
<1>8. CASE do.scope = "wide"
  <2>1. w = row /\ ~WithLink(do) /\ ~DirectMessage(do)
    BY <1>8 DEF NewConversation, WithLink, DirectMessage, row
  <2> QED  BY <1>1, <1>6, <1>8, <2>1 DEF NewRows
<1>9. CASE do.scope # "wide" /\ WithLink(do)
  <2>1. w = Overlay(row, Overlay(seats, share)) /\ ~DirectMessage(do)
    BY <1>9 DEF NewConversation, WithLink, row, seats, share
  <2> HIDE DEF w
  <2>2. /\ DOMAIN w = {Conv(c)} \cup (DOMAIN seats \cup {Share(l)})
        /\ w[Conv(c)] = row[Conv(c)]
        /\ \A r \in DOMAIN seats : r # Conv(c) => w[r] = seats[r]
        /\ (Share(l) # Conv(c) /\ Share(l) \notin DOMAIN seats) => w[Share(l)] = share[Share(l)]
    BY <1>1, <1>3, <2>1 DEF Overlay
  <2>3. NewRows(w, c, l, do)  BY <1>1, <1>2, <1>3, <1>5, <1>6, <1>7, <1>9, <2>1, <2>2 DEF NewRows
  <2> QED  BY <2>3 DEF w
<1>10. CASE do.scope # "wide" /\ ~WithLink(do)
  <2>1. w = Overlay(row, Overlay(seats, pair)) /\ DirectMessage(do)
    BY <1>10 DEF NewConversation, WithLink, row, seats, pair
  <2> HIDE DEF w
  <2>2. /\ DOMAIN w = {Conv(c)} \cup (DOMAIN seats \cup {Pair(E)})
        /\ w[Conv(c)] = row[Conv(c)]
        /\ \A r \in DOMAIN seats : r # Conv(c) => w[r] = seats[r]
        /\ (Pair(E) # Conv(c) /\ Pair(E) \notin DOMAIN seats) => w[Pair(E)] = pair[Pair(E)]
    BY <1>1, <1>4, <2>1 DEF Overlay
  <2>3. NewRows(w, c, l, do)  BY <1>1, <1>2, <1>4, <1>5, <1>6, <1>7, <1>10, <2>1, <2>2 DEF NewRows
  <2> QED  BY <2>3 DEF w
<1> QED  BY <1>8, <1>9, <1>10

LEMMA NewConversationWritten ==
  ASSUME NEW c \in Conversation, NEW l \in Link, NEW do \in Command, do.op = "createConversation"
  PROVE  NewConversation(c, l, do) \in Written /\ Fits(NewConversation(c, l, do))
<1> DEFINE E     == Everyone(do)
           row   == Only(Conv(c), [scope |-> do.scope, creator |-> do.by])
           seats == [r \in {Seat(c, u) : u \in E} |-> TRUE]
           share == Only(Share(l), [conv |-> c, active |-> TRUE])
           pair  == Only(Pair(E), c)
           w     == NewConversation(c, l, do)
<1>1. do.scope \in Scope /\ E \subseteq User /\ do.by \in User  BY CommandFields DEF Everyone
<1>2. row \in Written
  <2>1. [scope |-> do.scope, creator |-> do.by] \in Cell  BY <1>1 DEF Cell, ConvRow
  <2> QED  BY <2>1, OnlyWritten, RowsOfTables
<1>3. seats \in Written
  <2>1. \A r \in {Seat(c, u) : u \in E} : r \in Row  BY <1>1, RowsOfTables
  <2>2. TRUE \in Cell  BY DEF Cell
  <2>3. DOMAIN seats \subseteq Row /\ \A r \in DOMAIN seats : seats[r] \in Cell  BY <2>1, <2>2
  <2>4. seats = [r \in DOMAIN seats |-> seats[r]]  OBVIOUS
  <2> HIDE DEF seats
  <2> QED  BY <2>3, <2>4, WrittenIs
<1>4. share \in Written  BY ShareOnly
<1>5. DirectMessage(do) => pair \in Written
  <2>1. DirectMessage(do) => E \in Couple  BY <1>1 DEF DirectMessage, Couple
  <2>2. c \in Cell  BY DEF Cell
  <2> QED  BY <2>1, <2>2, OnlyWritten, RowsOfTables
<1>6. w \in Written
  <2> HIDE DEF row, seats, share, pair
  <2>1. CASE do.scope = "wide"
    <3>1. w = row  BY <2>1 DEF NewConversation, row
    <3> QED  BY <1>2, <3>1
  <2>2. CASE do.scope # "wide" /\ WithLink(do)
    <3>1. w = Overlay(row, Overlay(seats, share))  BY <2>2 DEF NewConversation, row, seats, share
    <3>2. Overlay(seats, share) \in Written  BY <1>3, <1>4, OverlayWritten
    <3> QED  BY <1>2, <3>1, <3>2, OverlayWritten
  <2>3. CASE do.scope # "wide" /\ ~WithLink(do)
    <3>1. w = Overlay(row, Overlay(seats, pair))  BY <2>3 DEF NewConversation, row, seats, pair
    <3>2. Overlay(seats, pair) \in Written  BY <1>3, <1>5, <2>3, OverlayWritten DEF WithLink
    <3> QED  BY <1>2, <3>1, <3>2, OverlayWritten
  <2> QED  BY <2>1, <2>2, <2>3
<1>7. NewRows(w, c, l, do)  BY NewConversationRows
<1> HIDE DEF w
<1>8. Fits(w)
  <2>1. /\ [scope |-> do.scope, creator |-> do.by] \in ConvRow
        /\ [conv |-> c, active |-> TRUE] \in ShareRow
    BY <1>1 DEF ConvRow, ShareRow
  <2>2. \A u \in User : Member(u) \notin DOMAIN w  BY <1>7 DEF NewRows
  <2>3. \A d \in Conversation : Conv(d) \in DOMAIN w => w[Conv(d)] \in ConvRow  BY <1>7, <2>1 DEF NewRows
  <2>4. \A d \in Conversation, u \in User : Seat(d, u) \in DOMAIN w => w[Seat(d, u)] \in BOOLEAN
    <3>1. \A d, u : Seat(d, u) \in DOMAIN w => (d = c /\ w[Seat(c, u)] = TRUE)  BY <1>7 DEF NewRows
    <3> QED  BY <3>1
  <2>5. \A p \in Couple : Pair(p) \in DOMAIN w => w[Pair(p)] \in Conversation \cup {None}
    BY <1>7 DEF NewRows
  <2>6. \A k \in Link : Share(k) \in DOMAIN w => w[Share(k)] \in ShareRow  BY <1>7, <2>1 DEF NewRows
  <2>7. \A i \in Invite : Asked(i) \notin DOMAIN w  BY <1>7 DEF NewRows
  <2> QED  BY <2>2, <2>3, <2>4, <2>5, <2>6, <2>7 DEF Fits
<1> QED  BY <1>6, <1>8 DEF w

\* The rows of a new conversation may be written first.
LEMMA NewRowsOK ==
  ASSUME NEW v, TablesOK(v), NEW told, RowsOK(NoRows, told, v),
         NEW c \in Conversation, NEW l \in Link, NEW do \in Command, do.op = "createConversation",
         v[Conv(c)].scope = "none", WithLink(do) => v[Share(l)].conv = None,
         DirectMessage(do) => v[Pair(Everyone(do))] = None,
         NEW w, NewRows(w, c, l, do),
         NEW N, \A r \in DOMAIN w : r \in N \/ \E p : r = Pair(p), N \subseteq told \cup DOMAIN w, told \subseteq N
  PROVE  RowsOK(w, N, v)
<1> DEFINE E == Everyone(do)
<1>1. do.scope \in Scope /\ E \subseteq User /\ do.by \in User  BY CommandFields DEF Everyone
<1>2. \A x : Conv(x) # Pair(x)  BY RowKeys
<1>3. /\ \A x, p : Member(x) # Pair(p) /\ Conv(x) # Pair(p)
      /\ \A x, y, p : Seat(x, y) # Pair(p)
  BY RowKeys
<1>4. w[Conv(c)].scope = do.scope /\ Conv(c) \in DOMAIN w /\ do.scope \in {"global", "private", "wide"}
  BY <1>1 DEF NewRows, Scope
<1>5. do.scope # "wide" => NewRoom(w, c)  BY <1>4 DEF NewRoom
<1>6. ~MembersOnly(v, c) /\ ~Mutable(v, c)  BY DEF MembersOnly, Mutable
<1>7. c # None  BY NoneAssumption
<1>8. \A k \in Link : v[Share(k)].conv # c  BY <1>6, <1>7 DEF TablesOK, References
<1>9. WithLink(do) => w[Share(l)].conv = c /\ w[Share(l)].active /\ do.scope # "wide"
  <2>1. WithLink(do) => w[Share(l)] = [conv |-> c, active |-> TRUE]  BY DEF NewRows
  <2> QED  BY <2>1 DEF WithLink
<1>10. MembersTold(w, N)  BY DEF NewRows, MembersTold
<1>11. NewConvs(w, N, v)
  <2> SUFFICES ASSUME NEW d \in Conversation, Conv(d) \in DOMAIN w
               PROVE  /\ v[Conv(d)].scope = "none" /\ w[Conv(d)].scope # "none" /\ Conv(d) \in N
                      /\ w[Conv(d)].scope = "global" =>
                           \/ \E k \in Link : Share(k) \in DOMAIN w /\ w[Share(k)].conv = d
                           \/ \E p \in Couple : Pair(p) \in DOMAIN w /\ w[Pair(p)] = d
    BY DEF NewConvs
  <2>1. d = c  BY DEF NewRows
  <2>2. Conv(c) \in N  BY <1>3, <1>4
  <2>3. CASE WithLink(do)  BY <1>4, <1>9, <2>1, <2>2, <2>3 DEF NewRows
  <2>4. CASE ~WithLink(do)
    <3>1. do.scope = "global" => DirectMessage(do) /\ E \in Couple
      BY <1>1, <2>4 DEF WithLink, DirectMessage, Couple
    <3> QED  BY <1>4, <2>1, <2>2, <3>1 DEF NewRows
  <2> QED  BY <2>3, <2>4
<1>12. SeatsChange(w, N, v)
  <2> SUFFICES ASSUME NEW d \in Conversation, NEW x \in User
               PROVE  /\ Seat(d, x) \in DOMAIN w => /\ w[Seat(d, x)] = ~v[Seat(d, x)]
                                                    /\ Mutable(v, d) \/ NewRoom(w, d)
                      /\ Seat(d, x) \in DOMAIN w <=> Seat(d, x) \in N
    BY DEF SeatsChange
  <2>1. Seat(d, x) \notin told  BY NoRowsWritten DEF RowsOK, SeatsChange
  <2>2. Seat(d, x) \in DOMAIN w <=> Seat(d, x) \in N  BY <1>3, <2>1
  <2>3. ASSUME Seat(d, x) \in DOMAIN w PROVE w[Seat(d, x)] = ~v[Seat(d, x)] /\ NewRoom(w, d)
    <3>1. d = c /\ do.scope # "wide" /\ w[Seat(c, x)] = TRUE  BY <2>3 DEF NewRows
    <3>2. v[Seat(c, x)] \in BOOLEAN  BY DEF TablesOK, IsTables
    <3>3. v[Seat(c, x)] => MembersOnly(v, c)  BY DEF TablesOK, References
    <3>4. v[Seat(c, x)] = FALSE  BY <1>6, <3>2, <3>3
    <3> QED  BY <1>5, <3>1, <3>4
  <2> QED  BY <2>2, <2>3
<1>13. NewPairs(w, v)
  <2> SUFFICES ASSUME NEW p \in Couple, Pair(p) \in DOMAIN w
               PROVE  /\ v[Pair(p)] = None /\ w[Pair(p)] \in Conversation
                      /\ Conv(w[Pair(p)]) \in DOMAIN w /\ w[Conv(w[Pair(p)])].scope = "global"
                      /\ \A x \in User : Seat(w[Pair(p)], x) \in DOMAIN w <=> x \in p
                      /\ \A k \in Link : Share(k) \in DOMAIN w => w[Share(k)].conv # w[Pair(p)]
    BY DEF NewPairs
  <2>1. p = E /\ DirectMessage(do) /\ w[Pair(p)] = c  BY DEF NewRows
  <2>2. do.scope = "global" /\ ~WithLink(do)  BY <2>1 DEF DirectMessage, WithLink
  <2>3. \A k : Share(k) \notin DOMAIN w  BY <2>2 DEF NewRows
  <2>4. \A x : Seat(c, x) \in DOMAIN w <=> x \in E  BY <2>2 DEF NewRows
  <2> QED  BY <1>4, <2>1, <2>2, <2>3, <2>4
<1>14. LinksTurn(w, v)
  <2>1. \A k \in Link : Share(k) \in DOMAIN w => k = l /\ WithLink(do)  BY DEF NewRows
  <2> QED  BY <1>5, <1>9, <2>1 DEF LinksTurn
<1>15. InvitesTurn(w, v)  BY DEF NewRows, InvitesTurn
<1>16. OneLive(Overlay(w, v))
  <2> DEFINE z == Overlay(w, v)
  <2>1. IsTables(v) /\ OneLive(v)  BY DEF TablesOK
  <2>2. \A k \in Link : Share(k) \notin DOMAIN w => z[Share(k)] = v[Share(k)]  BY <2>1, Sight, RowsOfTables
  <2>3. \A k \in Link : Share(k) \in DOMAIN w => k = l /\ z[Share(k)].conv = c
    <3>1. \A k \in Link : Share(k) \in DOMAIN w => k = l /\ WithLink(do) /\ z[Share(k)] = w[Share(k)]
      BY <2>1, Sight DEF NewRows
    <3> QED  BY <1>9, <3>1
  <2> HIDE DEF z
  <2>4. OneLive(z)
    <3> SUFFICES ASSUME NEW d \in Conversation, NEW k \in Link, NEW m \in Link,
                        z[Share(k)].active, z[Share(k)].conv = d, z[Share(m)].active, z[Share(m)].conv = d
                 PROVE  k = m
      BY DEF OneLive
    <3>1. CASE Share(k) \in DOMAIN w /\ Share(m) \in DOMAIN w  BY <2>3, <3>1
    <3>2. CASE Share(k) \in DOMAIN w /\ Share(m) \notin DOMAIN w  BY <1>8, <2>2, <2>3, <3>2
    <3>3. CASE Share(k) \notin DOMAIN w /\ Share(m) \in DOMAIN w  BY <1>8, <2>2, <2>3, <3>3
    <3>4. CASE Share(k) \notin DOMAIN w /\ Share(m) \notin DOMAIN w  BY <2>1, <2>2, <3>4 DEF OneLive
    <3> QED  BY <3>1, <3>2, <3>3, <3>4
  <2> QED  BY <2>4 DEF z
<1> QED  BY <1>10, <1>11, <1>12, <1>13, <1>14, <1>15, <1>16 DEF RowsOK

\* No one else writes rows of a conversation that is not there.
LEMMA NewRowsFree ==
  ASSUME Sound, NEW t \in Request, NEW c \in Conversation, FreshConv(c),
         NEW l \in Link, NEW do \in Command, do.op = "createConversation",
         WithLink(do) => FreshLink(l), DirectMessage(do) => Free(t, Pair(Everyone(do))),
         NEW w \in Written, NewRows(w, c, l, do)
  PROVE  /\ \A r \in DOMAIN w : Free(t, r)
         /\ \A k, m \in Link, o \in Request \ {t} :
              (Share(k) \in DOMAIN w /\ Share(m) \in DOMAIN tx[o].writes) =>
                w[Share(k)].conv # tx[o].writes[Share(m)].conv
<1>1. DOMAIN w \subseteq Row  BY WrittenIs
<1>2. ASSUME NEW r \in DOMAIN w PROVE Free(t, r)
  <2>1. CASE \E u \in User : r = Member(u)  BY <2>1 DEF NewRows
  <2>2. CASE \E d \in Conversation : r = Conv(d)  BY <2>2, FreshFree DEF NewRows
  <2>3. CASE \E d \in Conversation, u \in User : r = Seat(d, u)  BY <2>3, FreshFree DEF NewRows
  <2>4. CASE \E p \in Couple : r = Pair(p)  BY <2>4 DEF NewRows
  <2>5. CASE \E k \in Link : r = Share(k)  BY <2>5, FreshFree DEF NewRows
  <2>6. CASE \E i \in Invite : r = Asked(i)  BY <2>6 DEF NewRows
  <2> QED  BY <1>1, <1>2, <2>1, <2>2, <2>3, <2>4, <2>5, <2>6, RowCases
<1>3. ASSUME NEW k \in Link, NEW m \in Link, NEW o \in Request \ {t},
             Share(k) \in DOMAIN w, Share(m) \in DOMAIN tx[o].writes,
             tx[o].writes[Share(m)].conv = w[Share(k)].conv
      PROVE  FALSE
  <2>1. w[Share(k)].conv = c
    <3>1. w[Share(k)] = [conv |-> c, active |-> TRUE]  BY <1>3 DEF NewRows
    <3> QED  BY <3>1
  <2>2. LinksTurn(tx[o].writes, db) /\ References(db)  BY DEF Sound, TxOK, RowsOK, TablesOK
  <2>3. ~Mutable(db, c) /\ c # None  BY NoneAssumption DEF FreshConv, Mutable, MembersOnly
  <2>4. \A n \in Link : db[Share(n)].conv # c  BY <2>2, <2>3 DEF References
  <2>5. ~NewRoom(tx[o].writes, c)  BY DEF FreshConv, NewRoom
  <2> QED  BY <1>3, <2>1, <2>2, <2>3, <2>4, <2>5 DEF LinksTurn
<1> QED  BY <1>2, <1>3

LEMMA InsertConversationKeeps ==
  ASSUME Sound, NEW t \in Request, InsertConversation(t), UNCHANGED scene
  PROVE  Sound'
<1> DEFINE do == tx[t].do  pair == Pair(Everyone(do))
<1>1. tx[t] \in TxType /\ TxOK(tx[t], db) /\ tx[t].pc = "insert" /\ "done" \in Step
  BY TxFields DEF InsertConversation, At, Step
<1>2. do \in Command /\ do.op = "createConversation"  BY <1>1, TxFields DEF TxOK, OpOfStep
<1>3. tx[t].writes = NoRows  BY <1>1 DEF TxOK, WrittenBy, Returned
<1>4. DirectMessage(do) => Free(t, pair)  BY DEF InsertConversation
<1>5. ASSUME DirectMessage(do) => View(t)[pair] = None,
             NEW c \in Conversation, NEW l \in Link, FreshConv(c), WithLink(do) => FreshLink(l),
             Becomes(t, [Wrote(t, NewConversation(c, l, do), DOMAIN NewConversation(c, l, do) \ {pair})
                         EXCEPT !.pc = "done"])
      PROVE  Sound'
  <2>1. PICK w \in Written : w = NewConversation(c, l, do) /\ Fits(w) /\ NewRows(w, c, l, do)
    BY <1>2, NewConversationWritten, NewConversationRows
  <2>2. PICK T : T = DOMAIN w \ {pair}  OBVIOUS
  <2>3. PICK y : y = Moved(Wrote(t, w, T), "done")  OBVIOUS
  <2>4. Becomes(t, y)  BY <1>5, <2>1, <2>2, <2>3 DEF Moved
  <2>5. T \subseteq Row /\ "done" \in Step  BY <1>1, <2>2, WrittenIs
  <2>6. WroteTo(tx[t], y, w, T)  BY <2>3, <2>5, WroteMoved
  <2>7. y.pc = "done"  BY <2>3, <2>5, WroteMoved
  <2>8. y.do = do  BY <2>6 DEF WroteTo
  <2>9. OpOfStep(y) /\ WrittenBy(y) /\ StillSo(y, db)
    BY <1>2, <2>7, <2>8 DEF OpOfStep, WrittenBy, StillSo, Returned
  <2>10. Overlay(w, tx[t].writes) = w
    <3>1. w = [r \in DOMAIN w |-> w[r]]  BY WrittenIs
    <3>2. DOMAIN NoRows = {}  BY NoRowsWritten
    <3> QED  BY <1>3, <3>1, <3>2 DEF Overlay
  <2>11. DirectMessage(do) => db[pair] = None
    <3>1. DirectMessage(do) => Everyone(do) \in Couple
      BY <1>2, CommandFields DEF DirectMessage, Everyone, Couple
    <3>2. DirectMessage(do) => pair \in Row  BY <3>1, RowsOfTables
    <3> QED  BY <1>3, <1>5, <3>2, SightOf, NoRowsWritten
  <2>12. RowsOK(NoRows, tx[t].told, db) /\ TablesOK(db)  BY <1>1, <1>3 DEF TxOK, Sound
  <2>13. PICK N : N = tx[t].told \cup T  OBVIOUS
  <2>14. /\ \A r \in DOMAIN w : r \in N \/ \E p : r = Pair(p)
         /\ N \subseteq tx[t].told \cup DOMAIN w /\ tx[t].told \subseteq N
    BY <2>2, <2>13
  <2>15. RowsOK(w, N, db)
    BY <1>2, <1>5, <2>1, <2>11, <2>12, <2>14, NewRowsOK DEF FreshConv, FreshLink
  <2>16. RowsOK(Overlay(w, tx[t].writes), tx[t].told \cup T, db)  BY <2>10, <2>13, <2>15
  <2>17. /\ \A r \in DOMAIN w : Free(t, r)
         /\ \A k, m \in Link, o \in Request \ {t} :
              (Share(k) \in DOMAIN w /\ Share(m) \in DOMAIN tx[o].writes) =>
                w[Share(k)].conv # tx[o].writes[Share(m)].conv
    BY <1>2, <1>4, <1>5, <2>1, NewRowsFree
  <2>18. tx[t].pc \notin {"idle", "check"} /\ y.pc \notin {"idle", "check"}  BY <1>1, <2>7
  <2> QED  BY <2>1, <2>4, <2>6, <2>9, <2>16, <2>17, <2>18, WroteKeeps
<1> QED  BY <1>5, RollbackKeeps DEF InsertConversation

-----------------------------------------------------------------------------
(* Commit: the rows written become the committed ones.                     *)

\* What the rows of a transaction may not turn.
LEMMA Stays ==
  ASSUME NEW v, TablesOK(v), NEW w, Fits(w), DOMAIN w \subseteq Row, NEW told, RowsOK(w, told, v),
         NEW z, z = Overlay(w, v)
  PROVE  /\ IsTables(z)
         /\ \A r \in DOMAIN w : z[r] = w[r]
         /\ \A r \in Row : r \notin DOMAIN w => z[r] = v[r]
         /\ \A c \in Conversation : v[Conv(c)].scope # "none" => Conv(c) \notin DOMAIN w /\ z[Conv(c)] = v[Conv(c)]
         /\ \A c \in Conversation : MembersOnly(v, c) => MembersOnly(z, c)
         /\ \A c \in Conversation : Mutable(v, c) => Mutable(z, c)
         /\ \A c \in Conversation : NewRoom(w, c) => MembersOnly(z, c)
         /\ \A l \in Link : v[Share(l)].conv # None => z[Share(l)].conv = v[Share(l)].conv
         /\ \A i \in Invite : v[Asked(i)].to # None => z[Asked(i)].to = v[Asked(i)].to
<1>1. IsTables(z)  BY OverlayTables DEF TablesOK
<1>2. \A r \in DOMAIN w : z[r] = w[r]  BY Sight DEF TablesOK
<1>3. \A r \in Row : r \notin DOMAIN w => z[r] = v[r]  BY Sight DEF TablesOK
<1>4. \A c \in Conversation : v[Conv(c)].scope # "none" => Conv(c) \notin DOMAIN w /\ z[Conv(c)] = v[Conv(c)]
  BY <1>3, RowsOfTables DEF RowsOK, NewConvs
<1>5. \A c \in Conversation : MembersOnly(v, c) => MembersOnly(z, c)  BY <1>4 DEF MembersOnly
<1>6. \A c \in Conversation : NewRoom(w, c) => MembersOnly(z, c)  BY <1>2 DEF NewRoom, MembersOnly
<1>7. ASSUME NEW c \in Conversation, Mutable(v, c) PROVE Mutable(z, c)
  <2>1. MembersOnly(v, c) /\ ~IsDM(v, c) /\ v[Conv(c)].scope # "none"  BY <1>7 DEF Mutable, MembersOnly
  <2>2. ASSUME NEW p \in Couple, z[Pair(p)] = c PROVE FALSE
    <3>1. CASE Pair(p) \in DOMAIN w  BY <1>2, <1>4, <2>1, <2>2, <3>1 DEF RowsOK, NewPairs
    <3>2. CASE Pair(p) \notin DOMAIN w  BY <1>3, <2>1, <2>2, <3>2, RowsOfTables DEF IsDM
    <3> QED  BY <3>1, <3>2
  <2>3. ~IsDM(z, c)  BY <2>2 DEF IsDM
  <2> QED  BY <1>5, <2>1, <2>3 DEF Mutable
<1>8. ASSUME NEW l \in Link, v[Share(l)].conv # None PROVE z[Share(l)].conv = v[Share(l)].conv
  <2>1. CASE Share(l) \in DOMAIN w  BY <1>2, <1>8, <2>1 DEF RowsOK, LinksTurn
  <2>2. CASE Share(l) \notin DOMAIN w  BY <1>3, <2>2, RowsOfTables
  <2> QED  BY <2>1, <2>2
<1>9. ASSUME NEW i \in Invite, v[Asked(i)].to # None PROVE z[Asked(i)].to = v[Asked(i)].to
  <2>1. CASE Asked(i) \in DOMAIN w  BY <1>2, <1>9, <2>1 DEF RowsOK, InvitesTurn
  <2>2. CASE Asked(i) \notin DOMAIN w  BY <1>3, <2>2, RowsOfTables
  <2> QED  BY <2>1, <2>2
<1> QED  BY <1>1, <1>2, <1>3, <1>4, <1>5, <1>6, <1>7, <1>8, <1>9

LEMMA CommittedTables ==
  ASSUME NEW v, TablesOK(v), NEW w, Fits(w), DOMAIN w \subseteq Row, NEW told, RowsOK(w, told, v)
  PROVE  TablesOK(Overlay(w, v))
<1>1. PICK z : z = Overlay(w, v)  OBVIOUS
<1>2. /\ IsTables(z)
      /\ \A r \in DOMAIN w : z[r] = w[r]
      /\ \A r \in Row : r \notin DOMAIN w => z[r] = v[r]
  BY <1>1, Stays
<1>3. \A c \in Conversation : v[Conv(c)].scope # "none" => Conv(c) \notin DOMAIN w /\ z[Conv(c)] = v[Conv(c)]
  BY <1>1, Stays
<1>4. \A c \in Conversation : /\ MembersOnly(v, c) => MembersOnly(z, c)
                              /\ Mutable(v, c) => Mutable(z, c)
                              /\ NewRoom(w, c) => MembersOnly(z, c)
  BY <1>1, Stays
<1>5. \A l \in Link : v[Share(l)].conv # None => z[Share(l)].conv = v[Share(l)].conv  BY <1>1, Stays
<1>6. OneLive(z)  BY <1>1 DEF RowsOK
<1>7. ASSUME NEW p \in Couple, z[Pair(p)] # None PROVE z[Conv(z[Pair(p)])].scope = "global"
  <2>1. CASE Pair(p) \in DOMAIN w  BY <1>2, <2>1 DEF RowsOK, NewPairs
  <2>2. CASE Pair(p) \notin DOMAIN w
    <3>1. z[Pair(p)] = v[Pair(p)]  BY <1>2, <2>2, RowsOfTables
    <3>2. v[Pair(p)] \in Conversation /\ v[Conv(v[Pair(p)])].scope = "global"
      BY <1>7, <3>1 DEF TablesOK, IsTables, PairsAreGlobal
    <3> QED  BY <1>3, <3>1, <3>2
  <2> QED  BY <2>1, <2>2
<1>8. \A p \in Couple : z[Pair(p)] # None => z[Pair(p)] \in Conversation  BY <1>2 DEF IsTables
<1>9. ASSUME NEW c \in Conversation, NEW u \in User, z[Seat(c, u)] PROVE MembersOnly(z, c)
  <2>1. CASE Seat(c, u) \in DOMAIN w  BY <1>4, <2>1 DEF RowsOK, SeatsChange, Mutable
  <2>2. CASE Seat(c, u) \notin DOMAIN w
    <3>1. v[Seat(c, u)]  BY <1>2, <1>9, <2>2, RowsOfTables
    <3> QED  BY <1>4, <3>1 DEF TablesOK, References
  <2> QED  BY <2>1, <2>2
<1>10. ASSUME NEW l \in Link, z[Share(l)].conv # None PROVE Mutable(z, z[Share(l)].conv)
  <2> DEFINE c == z[Share(l)].conv
  <2>1. c \in Conversation
    <3>1. z[Share(l)] \in ShareRow  BY <1>2 DEF IsTables
    <3> QED  BY <1>10, <3>1, LinkFields
  <2>2. CASE v[Share(l)].conv = c
    <3>1. Mutable(v, c)  BY <1>10, <2>2 DEF TablesOK, References
    <3> QED  BY <1>4, <2>1, <3>1
  <2>3. CASE v[Share(l)].conv # c
    <3>1. Share(l) \in DOMAIN w /\ w[Share(l)].conv = c  BY <1>2, <2>3, RowsOfTables
    <3>2. Mutable(v, c) \/ NewRoom(w, c)  BY <2>3, <3>1 DEF RowsOK, LinksTurn
    <3>3. ASSUME NewRoom(w, c) PROVE Mutable(z, c)
      <4>1. Conv(c) \in DOMAIN w /\ v[Conv(c)].scope = "none"  BY <2>1, <3>3 DEF NewRoom, RowsOK, NewConvs
      <4>2. ASSUME NEW p \in Couple, z[Pair(p)] = c PROVE FALSE
        <5>1. CASE Pair(p) \in DOMAIN w  BY <1>2, <3>1, <4>2, <5>1 DEF RowsOK, NewPairs
        <5>2. CASE Pair(p) \notin DOMAIN w
          <6>1. v[Pair(p)] = c  BY <1>2, <4>2, <5>2, RowsOfTables
          <6>2. v[Conv(c)].scope = "global"  BY <1>10, <6>1 DEF TablesOK, PairsAreGlobal
          <6> QED  BY <4>1, <6>2
        <5> QED  BY <5>1, <5>2
      <4> QED  BY <1>4, <2>1, <3>3, <4>2 DEF Mutable, IsDM
    <3> QED  BY <1>4, <2>1, <3>2, <3>3
  <2> QED  BY <2>2, <2>3
<1>11. References(z)
  <2>1. \A p \in Couple : z[Pair(p)] # None => MembersOnly(z, z[Pair(p)])  BY <1>7 DEF MembersOnly
  <2> QED  BY <1>9, <1>10, <2>1 DEF References
<1>12. ASSUME NEW c \in Conversation, z[Conv(c)].scope = "global", \A l \in Link : z[Share(l)].conv # c
       PROVE  \E p \in Couple : z[Pair(p)] = c /\ People(z, c) = p
  <2>1. CASE Conv(c) \in DOMAIN w
    <3>1. v[Conv(c)].scope = "none" /\ w[Conv(c)].scope = "global"
      BY <1>2, <1>12, <2>1 DEF RowsOK, NewConvs
    <3>2. \A l \in Link : Share(l) \in DOMAIN w => w[Share(l)].conv # c  BY <1>2, <1>12
    <3>3. PICK p \in Couple : Pair(p) \in DOMAIN w /\ w[Pair(p)] = c
      BY <2>1, <3>1, <3>2 DEF RowsOK, NewConvs
    <3>4. \A u \in User : Seat(c, u) \in DOMAIN w <=> u \in p  BY <3>3 DEF RowsOK, NewPairs
    <3>5. \A u \in User : v[Seat(c, u)] = FALSE
      <4>1. ~MembersOnly(v, c)  BY <3>1 DEF MembersOnly
      <4> QED  BY <4>1 DEF TablesOK, References, IsTables
    <3>6. \A u \in User : z[Seat(c, u)] <=> u \in p
      <4> SUFFICES ASSUME NEW u \in User PROVE z[Seat(c, u)] <=> u \in p  OBVIOUS
      <4>1. CASE u \in p
        <5>1. w[Seat(c, u)] = ~v[Seat(c, u)] /\ Seat(c, u) \in DOMAIN w
          BY <3>4, <4>1 DEF RowsOK, SeatsChange
        <5> QED  BY <1>2, <3>5, <4>1, <5>1
      <4>2. CASE u \notin p
        <5>1. z[Seat(c, u)] = v[Seat(c, u)]  BY <1>2, <3>4, <4>2, RowsOfTables
        <5> QED  BY <3>5, <4>2, <5>1
      <4> QED  BY <4>1, <4>2
    <3>7. p \subseteq User  BY DEF Couple
    <3>8. People(z, c) = p  BY <3>6, <3>7 DEF People
    <3> QED  BY <1>2, <3>3, <3>8
  <2>2. CASE Conv(c) \notin DOMAIN w
    <3>1. v[Conv(c)].scope = "global"  BY <1>2, <1>12, <2>2, RowsOfTables
    <3>2. c # None  BY NoneAssumption
    <3>3. \A l \in Link : v[Share(l)].conv # c  BY <1>5, <1>12, <3>2
    <3>4. PICK p \in Couple : v[Pair(p)] = c /\ People(v, c) = p
      BY <3>1, <3>3 DEF TablesOK, DirectOfPairs
    <3>5. Pair(p) \notin DOMAIN w  BY <3>2, <3>4 DEF RowsOK, NewPairs
    <3>6. z[Pair(p)] = c  BY <1>2, <3>4, <3>5, RowsOfTables
    <3>7. ~Mutable(v, c) /\ ~NewRoom(w, c)  BY <2>2, <3>4 DEF Mutable, IsDM, NewRoom
    <3>8. \A u \in User : z[Seat(c, u)] = v[Seat(c, u)]
      BY <1>2, <3>7, RowsOfTables DEF RowsOK, SeatsChange
    <3>9. People(z, c) = People(v, c)  BY <3>8 DEF People
    <3> QED  BY <3>4, <3>6, <3>9
  <2> QED  BY <2>1, <2>2
<1>13. DirectOfPairs(z)  BY <1>12 DEF DirectOfPairs
<1> QED  BY <1>1, <1>2, <1>6, <1>7, <1>11, <1>13 DEF TablesOK, PairsAreGlobal

\* A transaction stays sound when another one commits.
LEMMA OthersStay ==
  ASSUME NEW v, TablesOK(v), NEW w, Fits(w), DOMAIN w \subseteq Row, NEW told, RowsOK(w, told, v),
         NEW x, TxOK(x, v), DOMAIN w \cap x.locks = {},
         \A l, m \in Link : (Share(l) \in DOMAIN w /\ Share(m) \in DOMAIN x.writes) =>
           w[Share(l)].conv # x.writes[Share(m)].conv,
         NEW z, z = Overlay(w, v)
  PROVE  TxOK(x, z)
<1>1. /\ IsTables(z)
      /\ \A r \in DOMAIN w : z[r] = w[r]
      /\ \A r \in Row : r \notin DOMAIN w => z[r] = v[r]
  BY Stays
<1>2. \A c \in Conversation : v[Conv(c)].scope # "none" => z[Conv(c)] = v[Conv(c)]  BY Stays
<1>3. \A c \in Conversation : Mutable(v, c) => Mutable(z, c)  BY Stays
<1>4. \A l \in Link : v[Share(l)].conv # None => z[Share(l)].conv = v[Share(l)].conv  BY Stays
<1>5. x \in TxType /\ DOMAIN x.writes \subseteq x.locks /\ x.locks \subseteq Row
  BY DEF TxOK, TxType, LocksOK
<1>6. \A r \in x.locks : r \in Row /\ z[r] = v[r] /\ r \notin DOMAIN w  BY <1>1, <1>5
<1>7. \A r \in DOMAIN x.writes : r \in Row /\ z[r] = v[r] /\ r \notin DOMAIN w  BY <1>5, <1>6
<1>8. NewConvs(x.writes, x.told, z)
  <2>1. NewConvs(x.writes, x.told, v)  BY DEF TxOK, RowsOK
  <2> QED  BY <1>7, <2>1 DEF NewConvs
<1>9. SeatsChange(x.writes, x.told, z)
  <2>1. SeatsChange(x.writes, x.told, v)  BY DEF TxOK, RowsOK
  <2> SUFFICES ASSUME NEW d \in Conversation, NEW u \in User
               PROVE  /\ Seat(d, u) \in DOMAIN x.writes => /\ x.writes[Seat(d, u)] = ~z[Seat(d, u)]
                                                           /\ Mutable(z, d) \/ NewRoom(x.writes, d)
                      /\ Seat(d, u) \in DOMAIN x.writes <=> Seat(d, u) \in x.told
    BY DEF SeatsChange
  <2>2. Seat(d, u) \in DOMAIN x.writes => /\ x.writes[Seat(d, u)] = ~v[Seat(d, u)]
                                          /\ Mutable(v, d) \/ NewRoom(x.writes, d)
    BY <2>1 DEF SeatsChange
  <2>3. Seat(d, u) \in DOMAIN x.writes <=> Seat(d, u) \in x.told  BY <2>1 DEF SeatsChange
  <2>4. Seat(d, u) \in DOMAIN x.writes => z[Seat(d, u)] = v[Seat(d, u)]  BY <1>7
  <2> QED  BY <1>3, <2>2, <2>3, <2>4
<1>10. NewPairs(x.writes, z)
  <2>1. NewPairs(x.writes, v)  BY DEF TxOK, RowsOK
  <2> QED  BY <1>7, <2>1 DEF NewPairs
<1>11. LinksTurn(x.writes, z)
  <2>1. LinksTurn(x.writes, v)  BY DEF TxOK, RowsOK
  <2> QED  BY <1>3, <1>7, <2>1 DEF LinksTurn
<1>12. InvitesTurn(x.writes, z)
  <2>1. InvitesTurn(x.writes, v)  BY DEF TxOK, RowsOK
  <2> QED  BY <1>7, <2>1 DEF InvitesTurn
<1>13. OneLive(Overlay(x.writes, z))
  <2>1. PICK n : n = Overlay(x.writes, z)  OBVIOUS
  <2>2. PICK a : a = Overlay(x.writes, v)  OBVIOUS
  <2>3. /\ \A r \in DOMAIN x.writes : n[r] = x.writes[r] /\ a[r] = x.writes[r]
        /\ \A r \in Row : r \notin DOMAIN x.writes => n[r] = z[r] /\ a[r] = v[r]
    BY <1>1, <2>1, <2>2, Sight DEF TablesOK
  <2>4. OneLive(a) /\ OneLive(z)  BY <2>2 DEF TxOK, RowsOK
  <2>5. \A l \in Link : Share(l) \in Row  BY RowsOfTables
  <2>6. \A l \in Link : Share(l) \in DOMAIN x.writes => n[Share(l)] = a[Share(l)] /\ Share(l) \notin DOMAIN w
    BY <1>7, <2>3
  <2>7. \A l \in Link : Share(l) \in DOMAIN w => n[Share(l)] = z[Share(l)] /\ n[Share(l)] = w[Share(l)]
    BY <1>1, <2>3, <2>5, <2>6
  <2>8. \A l \in Link : (Share(l) \notin DOMAIN w /\ Share(l) \notin DOMAIN x.writes) =>
          n[Share(l)] = z[Share(l)] /\ n[Share(l)] = a[Share(l)]
    BY <1>1, <2>3, <2>5
  <2>9. OneLive(n)
    <3> SUFFICES ASSUME NEW c \in Conversation, NEW l \in Link, NEW m \in Link,
                        n[Share(l)].active, n[Share(l)].conv = c, n[Share(m)].active, n[Share(m)].conv = c
                 PROVE  l = m
      BY DEF OneLive
    <3>1. CASE Share(l) \in DOMAIN x.writes /\ Share(m) \in DOMAIN w
      BY <2>3, <2>7, <3>1
    <3>2. CASE Share(l) \in DOMAIN w /\ Share(m) \in DOMAIN x.writes
      BY <2>3, <2>7, <3>2
    <3>3. CASE Share(l) \notin DOMAIN w /\ Share(m) \notin DOMAIN w
      BY <2>4, <2>6, <2>8, <3>3 DEF OneLive
    <3>4. CASE Share(l) \notin DOMAIN x.writes /\ Share(m) \notin DOMAIN x.writes
      BY <2>4, <2>7, <2>8, <3>4 DEF OneLive
    <3> QED  BY <2>6, <3>1, <3>2, <3>3, <3>4
  <2> QED  BY <2>1, <2>9
<1>14. LocksOK(x.writes, x.locks, z)
  <2>1. LocksOK(x.writes, x.locks, v)  BY DEF TxOK
  <2> QED  BY <1>6, <2>1 DEF LocksOK
<1>15. StillSo(x, z)
  <2>1. StillSo(x, v) /\ OpOfStep(x)  BY DEF TxOK
  <2>2. x.pc # "idle" => x.do \in Command  BY DEF TxOK
  <2>3. x.pc \in {"members", "add", "count people", "delete", "find link", "lock link", "new link"} =>
          x.do.conv \in Conversation
    BY <2>1, <2>2, CommandFields DEF OpOfStep
  <2>4. x.pc \in {"members", "add", "count people", "delete", "find link", "lock link", "new link"} =>
          Mutable(z, x.do.conv)
    BY <1>3, <2>1, <2>3 DEF StillSo
  <2>5. x.pc = "lock link" => \A l \in x.todo : l \in Link /\ z[Share(l)].conv = x.do.conv
    <3>1. x.pc = "lock link" => x.do.conv # None  BY <2>3, NoneAssumption
    <3> QED  BY <1>4, <2>1, <3>1 DEF StillSo
  <2>6. x.pc = "leave rooms" => \A c \in x.todo : c \in Conversation /\ z[Conv(c)].scope = "private"
    BY <1>2, <2>1 DEF StillSo
  <2> QED  BY <1>6, <2>1, <2>4, <2>5, <2>6 DEF StillSo
<1>16. MembersTold(x.writes, x.told)  BY DEF TxOK, RowsOK
<1>17. RowsOK(x.writes, x.told, z)  BY <1>8, <1>9, <1>10, <1>11, <1>12, <1>13, <1>16 DEF RowsOK
<1> QED  BY <1>14, <1>15, <1>17 DEF TxOK

LEMMA CommitKeeps ==
  ASSUME Sound, NEW t \in Request, Commit(t), UNCHANGED scene
  PROVE  Sound'
<1> DEFINE x == tx[t]
<1>1. x \in TxType /\ TxOK(x, db) /\ TablesOK(db)  BY TxFields DEF Sound
<1>2. /\ Fits(x.writes) /\ DOMAIN x.writes \subseteq Row /\ DOMAIN x.writes \subseteq x.locks
      /\ RowsOK(x.writes, x.told, db)
  BY <1>1, WrittenIs DEF TxOK, TxType, LocksOK
<1>3. PICK z : z = Overlay(x.writes, db)  OBVIOUS
<1>4. TablesOK(z)  BY <1>1, <1>2, <1>3, CommittedTables
<1>5. db' = z /\ tx' = [tx EXCEPT ![t] = Idle] /\ raced' \in BOOLEAN /\ scene' = scene /\ Here' = Here
  BY <1>3 DEF Commit, View, Here, Sound
<1>6. tx \in [Request -> TxType] /\ Idle \in TxType  BY IdleFields DEF Sound
<1>7. tx'[t] = Idle /\ \A o \in Request \ {t} : tx'[o] = tx[o]  BY <1>5, <1>6
<1>8. tx' \in [Request -> TxType]  BY <1>5, <1>6
<1>9. ASSUME NEW o \in Request \ {t} PROVE TxOK(tx[o], z)
  <2>1. TxOK(tx[o], db) /\ Apart(x, tx[o])  BY DEF Sound
  <2>2. DOMAIN x.writes \cap tx[o].locks = {}  BY <1>2, <2>1 DEF Apart
  <2>3. \A l, m \in Link : (Share(l) \in DOMAIN x.writes /\ Share(m) \in DOMAIN tx[o].writes) =>
           x.writes[Share(l)].conv # tx[o].writes[Share(m)].conv
    BY <2>1 DEF Apart
  <2> HIDE DEF x
  <2> QED  BY <1>1, <1>2, <1>3, <2>1, <2>2, <2>3, OthersStay
<1>10. \A o \in Request : TxOK(tx'[o], z) /\ tx'[o].do \in Here.commands \cup {None}
  BY <1>4, <1>7, <1>9, IdleOK, IdleFields DEF Sound
<1>11. \A o, p \in Request : o # p => Apart(tx'[o], tx'[p])
  <2>1. \A o \in Request : Apart(Idle, tx[o]) /\ Apart(tx[o], Idle)  BY IdleFields, NoRowsWritten DEF Apart
  <2> QED  BY <1>7, <2>1 DEF Sound
<1> QED  BY <1>4, <1>5, <1>8, <1>10, <1>11 DEF Sound

-----------------------------------------------------------------------------
LEMMA NextSound == Sound /\ [Next]_<<vars, scene>> => Sound'
<1>1. ASSUME Sound, UNCHANGED <<vars, scene>> PROVE Sound'
  BY <1>1 DEF vars, Sound, Here
<1>2. ASSUME Sound, Next PROVE Sound'
  <2>1. UNCHANGED scene  BY <1>2 DEF Next
  <2>2. PICK t \in Request :
          Arrive(t) \/ ConversationStep(t) \/ MembershipStep(t) \/ RunCheck(t) \/ Commit(t) \/ Abort(t)
    BY <1>2 DEF Next
  <2>3. CASE Arrive(t)  BY <1>2, <2>1, <2>3, ArriveKeeps
  <2>4. CASE ConversationStep(t)
    BY <1>2, <2>1, <2>4, LookUpKeeps, InsertConversationKeeps, CheckMembersKeeps, AddOneKeeps,
       CountPeopleKeeps, DeleteKeeps, FindLinkKeeps, LockLinkKeeps, NewLinkKeeps,
       ReadLinkKeeps, CheckEntitledKeeps, SitKeeps
    DEF ConversationStep
  <2>5. CASE MembershipStep(t)
    BY <1>2, <2>1, <2>5, InsertInviteKeeps, ReadInviteKeeps, ReadMembershipKeeps, CreateMembershipKeeps,
       MarkAcceptedKeeps, LockMemberKeeps, UpdateMemberKeeps, ListRoomsKeeps, LeaveRoomKeeps
    DEF MembershipStep
  <2>6. CASE RunCheck(t)  BY <1>2, <2>1, <2>6, RunCheckKeeps
  <2>7. CASE Commit(t)  BY <1>2, <2>1, <2>7, CommitKeeps
  <2>8. CASE Abort(t)  BY <1>2, <2>1, <2>8, AbortKeeps
  <2> QED  BY <2>2, <2>3, <2>4, <2>5, <2>6, <2>7, <2>8
<1> QED  BY <1>1, <1>2

\* Each transaction sees well-formed tables under a row that it writes or
\* depends on being locked: the inductive invariant.
THEOREM WorkspaceSound == Spec => []Sound
<1>1. Init => Sound  BY InitSound
<1>2. Sound /\ [Next]_<<vars, scene>> => Sound'  BY NextSound
<1> QED  BY <1>1, <1>2, PTL DEF Spec

\* Rows, transactions and locks are what their types say, and a transaction
\* holds the lock of every row it has written.
THEOREM WorkspaceTypes == Spec => []TypeOK
<1>1. Sound => TypeOK
  <2> SUFFICES ASSUME Sound PROVE TypeOK  OBVIOUS
  <2>1. IsTables(db) /\ raced \in BOOLEAN  BY DEF Sound, TablesOK
  <2>2. ASSUME NEW t \in Request
        PROVE  /\ tx[t].pc \in Step
               /\ tx[t].do \in Here.commands \cup {None}
               /\ tx[t].seen \in MemberRow \cup {None}
               /\ tx[t].todo \subseteq User \cup Conversation \cup Link
               /\ DOMAIN tx[t].writes \subseteq tx[t].locks /\ tx[t].locks \subseteq Row
               /\ IsTables(View(t))
               /\ tx[t].told \subseteq Row
               /\ tx[t].due \subseteq Check
    <3>1. tx[t] \in TxType /\ TxOK(tx[t], db) /\ tx[t].do \in Here.commands \cup {None}  BY TxFields
    <3>2. DOMAIN tx[t].writes \subseteq tx[t].locks  BY <3>1 DEF TxOK, LocksOK
    <3>3. IsTables(View(t))  BY SightOf
    <3> QED  BY <3>1, <3>2, <3>3 DEF TxType
  <2> QED  BY <2>1, <2>2 DEF TypeOK
<1> QED  BY <1>1, WorkspaceSound, PTL

\* However share links are asked for and rotated at the same time, a
\* conversation never has two active ones.
THEOREM LinksStayUnique == Spec => []OneActiveLink
<1>1. Sound => OneActiveLink  BY LiveLinks DEF Sound, TablesOK, OneActiveLink
<1> QED  BY <1>1, WorkspaceSound, PTL

\* However often and whenever two users ask for their direct conversation, the
\* global conversations without a link are those of pairs, of just these two.
THEOREM DirectStaysOfPairs == Spec => []OneDirectEach
<1>1. Sound => OneDirectEach  BY DEF Sound, TablesOK, OneDirectEach
<1> QED  BY <1>1, WorkspaceSound, PTL

-----------------------------------------------------------------------------
(* What a commit may do.                                                   *)

LEMMA Committing ==
  ASSUME Sound, NEW t \in Request, Commit(t)
  PROVE  /\ tx[t].pc \in Returned /\ tx[t] # Idle /\ tx[t].do \in Command
         /\ OpOfStep(tx[t]) /\ StillSo(tx[t], db) /\ ChecksQueued(tx[t])
         /\ RowsOK(tx[t].writes, tx[t].told, db)
         /\ IsTables(db') /\ DOMAIN tx[t].writes \subseteq Row
         /\ \A r \in DOMAIN tx[t].writes : db'[r] = tx[t].writes[r]
         /\ \A r \in Row : r \notin DOMAIN tx[t].writes => db'[r] = db[r]
<1>1. tx[t].pc \in Returned /\ db' = View(t)  BY DEF Commit, Returned
<1>2. TxOK(tx[t], db) /\ tx[t].do \in Command  BY <1>1, TxFields DEF Returned
<1>3. tx[t] # Idle  BY <1>1, IdleFields DEF Returned
<1> QED  BY <1>1, <1>2, <1>3, SightOf DEF TxOK

\* The seat is taken with the link locked since it was found active, so that
\* no rotation is committed in between.
THEOREM JoinsByLiveLinks == Spec => JoinsUseLiveLinks
<1>1. Sound /\ [Next]_<<vars, scene>> =>
        [\A t \in Request : (Doing(t, "join") /\ Commit(t)) => db[Share(tx[t].do.link)].active]_vars
  <2> SUFFICES ASSUME Sound, NEW t \in Request, Doing(t, "join"), Commit(t)
               PROVE  db[Share(tx[t].do.link)].active
    OBVIOUS
  <2>1. tx[t].pc \in Returned /\ StillSo(tx[t], db) /\ tx[t].do.op = "join"
    BY Committing DEF Doing
  <2> QED  BY <2>1 DEF StillSo
<1> QED  BY <1>1, WorkspaceSound, PTL DEF Spec, JoinsUseLiveLinks

\* The row of a member is locked from the read to the commit, so that the
\* fields that are written back are those that were committed last.
THEOREM PatchesKeepTheRest == Spec => PatchKeepsTheRest
<1>1. Sound /\ [Next]_<<vars, scene>> =>
        [\A t \in Request : (Doing(t, "patchMember") /\ Commit(t)) =>
           LET m == Member(tx[t].do.user)
           IN /\ tx[t].do.role = "same"   => db'[m].role = db[m].role
              /\ tx[t].do.status = "same" => db'[m].status = db[m].status]_vars
  <2> SUFFICES ASSUME Sound, NEW t \in Request, Doing(t, "patchMember"), Commit(t), NEW m, m = Member(tx[t].do.user)
               PROVE  /\ tx[t].do.role = "same"   => db'[m].role = db[m].role
                      /\ tx[t].do.status = "same" => db'[m].status = db[m].status
    OBVIOUS
  <2>1. tx[t].pc \in Returned /\ StillSo(tx[t], db) /\ tx[t].do.op = "patchMember"
    BY Committing DEF Doing
  <2>2. tx[t].seen = db[m] /\ m \in DOMAIN tx[t].writes /\ tx[t].writes[m] = Patched(tx[t].do, tx[t].seen)
    BY <2>1 DEF StillSo
  <2>3. db'[m] = Patched(tx[t].do, db[m])  BY <2>2, Committing
  <2> QED  BY <2>3 DEF Patched
<1> QED  BY <1>1, WorkspaceSound, PTL DEF Spec, PatchKeepsTheRest

\* A transaction that changes a member, a conversation or a participant carries
\* its event, and a participant event comes with a row that really turns.
THEOREM CommitsTellChanges == Spec => ChangesTold
<1>1. Sound /\ [Next]_<<vars, scene>> =>
        [\A t \in Request : Commit(t) =>
           /\ \A u \in User : db'[Member(u)] # db[Member(u)] => Member(u) \in tx[t].told
           /\ \A c \in Conversation : db'[Conv(c)] # db[Conv(c)] => Conv(c) \in tx[t].told
           /\ \A c \in Conversation, u \in User :
                db'[Seat(c, u)] # db[Seat(c, u)] <=> Seat(c, u) \in tx[t].told]_vars
  <2> SUFFICES ASSUME Sound, NEW t \in Request, Commit(t)
               PROVE  /\ \A u \in User : db'[Member(u)] # db[Member(u)] => Member(u) \in tx[t].told
                      /\ \A c \in Conversation : db'[Conv(c)] # db[Conv(c)] => Conv(c) \in tx[t].told
                      /\ \A c \in Conversation, u \in User :
                           db'[Seat(c, u)] # db[Seat(c, u)] <=> Seat(c, u) \in tx[t].told
    OBVIOUS
  <2>1. /\ \A r \in DOMAIN tx[t].writes : db'[r] = tx[t].writes[r]
        /\ \A r \in Row : r \notin DOMAIN tx[t].writes => db'[r] = db[r]
        /\ RowsOK(tx[t].writes, tx[t].told, db)
    BY Committing
  <2>2. \A u \in User : db'[Member(u)] # db[Member(u)] => Member(u) \in tx[t].told
    BY <2>1, RowsOfTables DEF RowsOK, MembersTold
  <2>3. \A c \in Conversation : db'[Conv(c)] # db[Conv(c)] => Conv(c) \in tx[t].told
    BY <2>1, RowsOfTables DEF RowsOK, NewConvs
  <2>4. ASSUME NEW c \in Conversation, NEW u \in User
        PROVE  db'[Seat(c, u)] # db[Seat(c, u)] <=> Seat(c, u) \in tx[t].told
    <3>1. /\ Seat(c, u) \in DOMAIN tx[t].writes => tx[t].writes[Seat(c, u)] = ~db[Seat(c, u)]
          /\ Seat(c, u) \in DOMAIN tx[t].writes <=> Seat(c, u) \in tx[t].told
      BY <2>1 DEF RowsOK, SeatsChange
    <3>2. db[Seat(c, u)] \in BOOLEAN  BY DEF Sound, TablesOK, IsTables
    <3>3. CASE Seat(c, u) \in DOMAIN tx[t].writes
      <4>1. db'[Seat(c, u)] = ~db[Seat(c, u)]  BY <2>1, <3>1, <3>3
      <4>2. db'[Seat(c, u)] # db[Seat(c, u)]
        <5>1. PICK b \in BOOLEAN : b = db[Seat(c, u)]  BY <3>2
        <5> QED  BY <4>1, <5>1
      <4> QED  BY <3>1, <3>3, <4>2
    <3>4. CASE Seat(c, u) \notin DOMAIN tx[t].writes  BY <2>1, <3>1, <3>4, RowsOfTables
    <3> QED  BY <3>3, <3>4
  <2> QED  BY <2>2, <2>3, <2>4
<1> QED  BY <1>1, WorkspaceSound, PTL DEF Spec, ChangesTold

-----------------------------------------------------------------------------
(* The deferred checks: what they have found holds until the commit unless *)
(* another commit comes in between.                                        *)

\* Every constraint on the rows w is found to hold, or its check is still due.
Examined(x, v) == \A k \in Due(x.writes) \ x.due : Passes(Overlay(x.writes, v), k)

ChecksHold ==
  raced \/ (Constraints(db) /\ \A t \in Request : tx[t].pc = "check" => Examined(tx[t], db))

LEMMA CheckKeys ==
  /\ OwnerCheck[1] = "owner"
  /\ \A u : SeatsCheck(u)[1] = "seats" /\ SeatsCheck(u)[2] = u
  /\ \A c, u : SeatCheck(c, u)[1] = "seat" /\ SeatCheck(c, u)[2] = c /\ SeatCheck(c, u)[3] = u
  /\ \A c : RoomCheck(c)[1] = "room" /\ RoomCheck(c)[2] = c
BY DEF OwnerCheck, SeatsCheck, SeatCheck, RoomCheck

\* What a check that passes says.
LEMMA Passed ==
  ASSUME NEW v
  PROVE  /\ Passes(v, OwnerCheck) => HasOwner(v)
         /\ \A u \in User : Passes(v, SeatsCheck(u)) => \A c \in Conversation : MaySit(v, c, u)
         /\ \A c \in Conversation, u \in User : Passes(v, SeatCheck(c, u)) => MaySit(v, c, u)
         /\ \A c \in Conversation : Passes(v, RoomCheck(c)) => Peopled(v, c) /\ PairIntact(v, c)
<1>1. Passes(v, OwnerCheck) => HasOwner(v)  BY CheckKeys DEF Passes
<1>2. ASSUME NEW u \in User, Passes(v, SeatsCheck(u)) PROVE \A c \in Conversation : MaySit(v, c, u)
  BY <1>2, CheckKeys DEF Passes
<1>3. ASSUME NEW c \in Conversation, NEW u \in User, Passes(v, SeatCheck(c, u)) PROVE MaySit(v, c, u)
  BY <1>3, CheckKeys DEF Passes
<1>4. ASSUME NEW c \in Conversation, Passes(v, RoomCheck(c)) PROVE Peopled(v, c) /\ PairIntact(v, c)
  BY <1>4, CheckKeys DEF Passes
<1> QED  BY <1>1, <1>2, <1>3, <1>4

\* The checks queued for the rows w are enough: whatever constraint the rows
\* could break is looked at.
LEMMA DueSuffices ==
  ASSUME NEW v, TablesOK(v), Constraints(v),
         NEW w, Fits(w), DOMAIN w \subseteq Row, NEW told, RowsOK(w, told, v),
         NEW z, z = Overlay(w, v), \A k \in Due(w) : Passes(z, k)
  PROVE  Constraints(z)
<1>1. /\ IsTables(z)
      /\ \A r \in DOMAIN w : z[r] = w[r]
      /\ \A r \in Row : r \notin DOMAIN w => z[r] = v[r]
  BY Stays
<1>2. \A c \in Conversation : v[Conv(c)].scope # "none" => z[Conv(c)] = v[Conv(c)]  BY Stays
<1>3. HasOwner(z)
  <2>1. CASE \E u \in User : Member(u) \in DOMAIN w
    <3>1. OwnerCheck \in Due(w)  BY <2>1 DEF Due
    <3> QED  BY <3>1, Passed
  <2>2. CASE \A u \in User : Member(u) \notin DOMAIN w
    <3>1. \A u \in User : z[Member(u)] = v[Member(u)]  BY <1>1, <2>2, RowsOfTables
    <3>2. Owners(z) = Owners(v)  BY <3>1 DEF Owners, Active
    <3> QED  BY <3>2 DEF Constraints, HasOwner
  <2> QED  BY <2>1, <2>2
<1>4. ASSUME NEW c \in Conversation PROVE Peopled(z, c) /\ PairIntact(z, c)
  <2>1. CASE Conv(c) \in DOMAIN w \/ \E u \in User : Seat(c, u) \in DOMAIN w
    <3>1. RoomCheck(c) \in Due(w)  BY <2>1 DEF Due
    <3> QED  BY <3>1, Passed
  <2>2. CASE Conv(c) \notin DOMAIN w /\ \A u \in User : Seat(c, u) \notin DOMAIN w
    <3>1. z[Conv(c)] = v[Conv(c)] /\ \A u \in User : z[Seat(c, u)] = v[Seat(c, u)]
      BY <1>1, <2>2, RowsOfTables
    <3>2. People(z, c) = People(v, c)  BY <3>1 DEF People
    <3>3. Peopled(v, c) /\ PairIntact(v, c)  BY DEF Constraints
    <3>4. Peopled(z, c)  BY <3>1, <3>2, <3>3 DEF Peopled, MembersOnly
    <3>5. ASSUME IsDM(z, c) PROVE IsDM(v, c)
      <4>1. PICK p \in Couple : z[Pair(p)] = c  BY <3>5 DEF IsDM
      <4>2. Pair(p) \notin DOMAIN w  BY <1>1, <2>2, <4>1 DEF RowsOK, NewPairs
      <4>3. v[Pair(p)] = c  BY <1>1, <4>1, <4>2, RowsOfTables
      <4> QED  BY <4>3 DEF IsDM
    <3> QED  BY <3>1, <3>2, <3>3, <3>4, <3>5 DEF PairIntact
  <2> QED  BY <2>1, <2>2
<1>5. ASSUME NEW c \in Conversation, NEW u \in User PROVE MaySit(z, c, u)
  <2>1. CASE Member(u) \in DOMAIN w
    <3>1. SeatsCheck(u) \in Due(w)  BY <2>1 DEF Due
    <3> QED  BY <3>1, Passed
  <2>2. CASE Seat(c, u) \in DOMAIN w /\ w[Seat(c, u)]
    <3>1. PICK s \in Conversation \X User : s = <<c, u>>  OBVIOUS
    <3>2. s[1] = c /\ s[2] = u  BY <3>1
    <3>3. SeatCheck(s[1], s[2]) \in Due(w)  BY <2>2, <3>2 DEF Due
    <3> QED  BY <3>2, <3>3, Passed
  <2>3. CASE Seat(c, u) \in DOMAIN w /\ ~w[Seat(c, u)]  BY <1>1, <2>3 DEF MaySit
  <2>4. CASE Member(u) \notin DOMAIN w /\ Seat(c, u) \notin DOMAIN w
    <3>1. z[Member(u)] = v[Member(u)] /\ z[Seat(c, u)] = v[Seat(c, u)]  BY <1>1, <2>4, RowsOfTables
    <3>2. v[Seat(c, u)] => z[Conv(c)] = v[Conv(c)]
      BY <1>2 DEF TablesOK, References, MembersOnly
    <3>3. MaySit(v, c, u)  BY DEF Constraints
    <3> QED  BY <3>1, <3>2, <3>3 DEF MaySit, Active
  <2> QED  BY <2>1, <2>2, <2>3, <2>4
<1> QED  BY <1>3, <1>4, <1>5 DEF Constraints

\* A statement moves one transaction, and none goes to the checks.
Moves(t) == \E y : Becomes(t, y) /\ y.pc # "check"

LEMMA RollbackMoves ==
  ASSUME NEW t \in Request, Rollback(t)
  PROVE  Moves(t)
<1>1. Idle.pc # "check"  BY IdleFields
<1> QED  BY <1>1 DEF Rollback, Moves

LEMMA MovesTo ==
  ASSUME NEW t \in Request, NEW x, "pc" \in DOMAIN x, NEW pc, pc # "check", NEW y,
         y = [x EXCEPT !.pc = pc], Becomes(t, y)
  PROVE  Moves(t)
<1>1. y.pc = pc  OBVIOUS
<1> QED  BY <1>1 DEF Moves

LEMMA HasPc ==
  ASSUME Sound, NEW t \in Request
  PROVE  /\ "pc" \in DOMAIN tx[t]
         /\ \A w, T : "pc" \in DOMAIN Wrote(t, w, T) /\ Wrote(t, w, T).pc = tx[t].pc
<1>1. tx[t] \in TxType  BY TxFields
<1>2. "pc" \in DOMAIN tx[t]  BY <1>1 DEF TxType
<1> QED  BY <1>2 DEF Wrote

LEMMA GotoMoves ==
  ASSUME Sound, NEW t \in Request, NEW pc, pc # "check", Goto(t, pc)
  PROVE  Moves(t)
BY HasPc, MovesTo DEF Goto

LEMMA BeginMoves ==
  ASSUME NEW t \in Request, NEW do, NEW pc, pc # "check", Begin(t, do, pc)
  PROVE  Moves(t)
<1>1. PICK y : y = [Idle EXCEPT !.do = do, !.pc = pc]  OBVIOUS
<1>2. y.pc = pc  BY <1>1 DEF Idle
<1> QED  BY <1>1, <1>2 DEF Begin, Moves

LEMMA ArriveMoves ==
  ASSUME NEW t \in Request, Arrive(t)
  PROVE  Moves(t)
<1>1. PICK do : ConversationRequest(t, do) \/ MembershipRequest(t, do)  BY DEF Arrive
<1>2. \E pc \in FirstSteps : Begin(t, do, pc)
  BY <1>1 DEF ConversationRequest, MembershipRequest, CreateConversation, AddParticipants, DeleteParticipant,
     ShareLink, JoinConversation, CreateInvite, AcceptInvite, PatchMember, FirstSteps
<1> QED  BY <1>2, BeginMoves DEF FirstSteps

LEMMA ConversationStepMoves ==
  ASSUME Sound, NEW t \in Request, ConversationStep(t)
  PROVE  Moves(t) /\ tx[t].pc # "check"
<1>1. PICK x : x = tx[t]  OBVIOUS
<1>2. "pc" \in DOMAIN x  BY <1>1, HasPc
<1>3. CASE LookUp(t)  BY <1>3, GotoMoves, RollbackMoves DEF LookUp, At
<1>4. CASE InsertConversation(t)
  BY <1>4, HasPc, MovesTo, RollbackMoves DEF InsertConversation, At
<1>5. CASE CheckMembers(t)
  <2>1. PICK y : y = [x EXCEPT !.todo = x.do.who, !.pc = "add"]  OBVIOUS
  <2>2. y.pc = "add"  BY <1>2, <2>1
  <2> QED  BY <1>1, <1>5, <2>1, <2>2, RollbackMoves DEF CheckMembers, At, Moves
<1>6. CASE AddOne(t)
  <2>1. CASE Goto(t, "done")  BY <1>6, <2>1, GotoMoves DEF AddOne, At
  <2>2. CASE ~Goto(t, "done")
    <3>1. PICK u \in tx[t].todo : Becomes(t, [TakeSeat(t, tx[t].do.conv, u) EXCEPT !.todo = @ \ {u}])
      BY <1>6, <2>2 DEF AddOne
    <3>2. PICK z : z = TakeSeat(t, tx[t].do.conv, u)  OBVIOUS
    <3>3. "pc" \in DOMAIN z /\ z.pc = "add"  BY <1>6, <3>2, HasPc DEF TakeSeat, AddOne, At
    <3>4. [z EXCEPT !.todo = @ \ {u}].pc = "add"  BY <3>3
    <3> QED  BY <1>6, <3>1, <3>2, <3>4 DEF Moves, AddOne, At
  <2> QED  BY <2>1, <2>2
<1>7. CASE CountPeople(t)  BY <1>7, GotoMoves, RollbackMoves DEF CountPeople, At
<1>8. CASE Delete(t)  BY <1>8, HasPc, MovesTo, RollbackMoves DEF Delete, LeaveSeat, At
<1>9. CASE FindLink(t)
  <2>1. PICK found : found = ActiveLinks(View(t), tx[t].do.conv)  OBVIOUS
  <2>2. PICK pc \in {"new link", "lock link"} :
          Becomes(t, [x EXCEPT !.todo = found, !.pc = pc])
    BY <1>1, <1>9, <2>1 DEF FindLink
  <2>3. [x EXCEPT !.todo = found, !.pc = pc].pc = pc  BY <1>2
  <2> QED  BY <1>9, <2>2, <2>3 DEF Moves, FindLink, At
<1>10. CASE LockLink(t)
  <2>1. PICK l \in tx[t].todo :
          \/ Goto(t, "new link")
          \/ Becomes(t, [x EXCEPT !.locks = @ \cup {Share(l)}, !.pc = "done"])
          \/ Becomes(t, [Wrote(t, Only(Share(l), [conv |-> tx[t].do.conv, active |-> FALSE]), {})
                         EXCEPT !.pc = "new link"])
    BY <1>1, <1>10 DEF LockLink
  <2>2. [x EXCEPT !.locks = @ \cup {Share(l)}, !.pc = "done"].pc = "done"  BY <1>2
  <2>3. Moves(t)  BY <2>1, <2>2, HasPc, MovesTo, GotoMoves DEF Moves
  <2> QED  BY <1>10, <2>3 DEF LockLink, At
<1>11. CASE NewLink(t)  BY <1>11, HasPc, MovesTo, RollbackMoves DEF NewLink, At
<1>12. CASE ReadLink(t)
  <2>1. [x EXCEPT !.locks = @ \cup {Share(tx[t].do.link)}, !.pc = "entitled"].pc = "entitled"  BY <1>2
  <2> QED  BY <1>1, <1>12, <2>1, RollbackMoves DEF ReadLink, At, Moves
<1>13. CASE CheckEntitled(t)  BY <1>13, GotoMoves, RollbackMoves DEF CheckEntitled, At
<1>14. CASE Sit(t)  BY <1>14, HasPc, MovesTo DEF Sit, TakeSeat, At
<1> QED  BY <1>3, <1>4, <1>5, <1>6, <1>7, <1>8, <1>9, <1>10, <1>11, <1>12, <1>13, <1>14 DEF ConversationStep

LEMMA MembershipStepMoves ==
  ASSUME Sound, NEW t \in Request, MembershipStep(t)
  PROVE  Moves(t) /\ tx[t].pc # "check"
<1>1. PICK x : x = tx[t]  OBVIOUS
<1>2. "pc" \in DOMAIN x  BY <1>1, HasPc
<1>3. CASE InsertInvite(t)  BY <1>3, HasPc, MovesTo DEF InsertInvite, At
<1>4. CASE ReadInvite(t)
  <2>1. [x EXCEPT !.locks = @ \cup {Asked(tx[t].do.invite)}, !.pc = "membership"].pc = "membership"  BY <1>2
  <2> QED  BY <1>1, <1>4, <2>1, RollbackMoves DEF ReadInvite, At, Moves
<1>5. CASE ReadMembership(t)
  <2>1. PICK m : m = Member(tx[t].do.by)  OBVIOUS
  <2>2. [x EXCEPT !.locks = @ \cup {m}, !.pc = "accept"].pc = "accept"  BY <1>2
  <2>3. Moves(t)
    BY <1>1, <1>5, <2>1, <2>2, HasPc, MovesTo, GotoMoves DEF ReadMembership, Moves
  <2> QED  BY <1>5, <2>3 DEF ReadMembership, At
<1>6. CASE CreateMembership(t)  BY <1>6, HasPc, MovesTo, RollbackMoves DEF CreateMembership, At
<1>7. CASE MarkAccepted(t)  BY <1>7, HasPc, MovesTo, GotoMoves DEF MarkAccepted, At
<1>8. CASE LockMember(t)
  <2>1. PICK m : m = Member(tx[t].do.user)  OBVIOUS
  <2>2. [x EXCEPT !.locks = @ \cup {m}, !.seen = View(t)[m], !.pc = "update"].pc = "update"  BY <1>2
  <2>3. Moves(t)  BY <1>1, <1>8, <2>1, <2>2, RollbackMoves DEF LockMember, Moves
  <2> QED  BY <1>8, <2>3 DEF LockMember, At
<1>9. CASE UpdateMember(t)
  <2> DEFINE m == Member(tx[t].do.user)  w == Only(m, Patched(tx[t].do, tx[t].seen))
  <2>1. PICK pc \in {"done", "list rooms"} : Rollback(t) \/ Becomes(t, [Wrote(t, w, {m}) EXCEPT !.pc = pc])
    BY <1>9 DEF UpdateMember
  <2> HIDE DEF m, w
  <2>2. Moves(t)  BY <2>1, HasPc, MovesTo, RollbackMoves
  <2> QED  BY <1>9, <2>2 DEF UpdateMember, At
<1>10. CASE ListRooms(t)
  <2>1. PICK rooms : Rollback(t) \/ Becomes(t, [x EXCEPT !.todo = rooms, !.pc = "leave rooms"])
    BY <1>1, <1>10 DEF ListRooms
  <2>2. [x EXCEPT !.todo = rooms, !.pc = "leave rooms"].pc = "leave rooms"  BY <1>2
  <2> QED  BY <1>10, <2>1, <2>2, RollbackMoves DEF ListRooms, At, Moves
<1>11. CASE LeaveRoom(t)
  <2>1. CASE Goto(t, "done")  BY <1>11, <2>1, GotoMoves DEF LeaveRoom, At
  <2>2. CASE ~Goto(t, "done")
    <3> DEFINE left(c) == IF View(t)[Seat(c, tx[t].do.user)] THEN LeaveSeat(t, c, tx[t].do.user) ELSE tx[t]
    <3>1. PICK c \in tx[t].todo : Becomes(t, [left(c) EXCEPT !.todo = @ \ {c}])
      BY <1>11, <2>2 DEF LeaveRoom
    <3>2. PICK z : z = left(c)  OBVIOUS
    <3>3. "pc" \in DOMAIN z /\ z.pc = "leave rooms"  BY <1>11, <3>2, HasPc DEF LeaveSeat, LeaveRoom, At
    <3>4. [z EXCEPT !.todo = @ \ {c}].pc = "leave rooms"  BY <3>3
    <3> HIDE DEF left
    <3> QED  BY <1>11, <3>1, <3>2, <3>4 DEF Moves, LeaveRoom, At
  <2> QED  BY <2>1, <2>2
<1> QED  BY <1>3, <1>4, <1>5, <1>6, <1>7, <1>8, <1>9, <1>10, <1>11 DEF MembershipStep

LEMMA MovesKeepChecks ==
  ASSUME Sound, ChecksHold, NEW t \in Request, Moves(t)
  PROVE  ChecksHold'
<1>1. PICK y : Becomes(t, y) /\ y.pc # "check"  BY DEF Moves
<1>2. db' = db /\ raced' = raced /\ tx' = [tx EXCEPT ![t] = y]  BY <1>1 DEF Becomes
<1>3. tx \in [Request -> TxType]  BY DEF Sound
<1>4. \A o \in Request : tx'[o] = tx[o] \/ tx'[o].pc # "check"  BY <1>1, <1>2, <1>3
<1>5. Constraints(db)' <=> Constraints(db)
  BY <1>2 DEF Constraints, HasOwner, Owners, Active, Peopled, PairIntact, People, IsDM, MembersOnly, MaySit
<1>6. \A o \in Request : tx'[o] = tx[o] => (Examined(tx'[o], db') <=> Examined(tx[o], db))  BY <1>2
<1> QED  BY <1>2, <1>4, <1>5, <1>6 DEF ChecksHold

LEMMA RunCheckHolds ==
  ASSUME Sound, ChecksHold, NEW t \in Request, RunCheck(t)
  PROVE  ChecksHold'
<1>1. /\ tx \in [Request -> TxType] /\ tx[t] \in TxType /\ TxOK(tx[t], db)
      /\ tx[t].pc \in Returned
  BY TxFields DEF RunCheck, Returned, Sound
<1>2. CASE Rollback(t)  BY <1>2, RollbackMoves, MovesKeepChecks
<1>3. CASE ~Rollback(t)
  <2>1. PICK k \in tx[t].due :
          Passes(View(t), k) /\ Becomes(t, [tx[t] EXCEPT !.pc = "check", !.due = @ \ {k}])
    BY <1>3 DEF RunCheck
  <2>2. PICK y : y = [tx[t] EXCEPT !.pc = "check", !.due = @ \ {k}]  OBVIOUS
  <2>3. y.writes = tx[t].writes /\ y.due = tx[t].due \ {k}  BY <1>1, <2>2 DEF TxType
  <2>4. db' = db /\ raced' = raced /\ tx' = [tx EXCEPT ![t] = y]  BY <2>1, <2>2 DEF Becomes
  <2>5. tx'[t] = y /\ \A o \in Request \ {t} : tx'[o] = tx[o]  BY <1>1, <2>4
  <2>6. ASSUME ~raced PROVE Examined(y, db)
    <3>1. CASE tx[t].pc = "check"
      BY <2>1, <2>3, <2>6, <3>1 DEF ChecksHold, Examined, View
    <3>2. CASE tx[t].pc # "check"
      <4>1. Due(tx[t].writes) \subseteq tx[t].due  BY <1>1, <3>2 DEF TxOK, ChecksQueued
      <4> QED  BY <2>1, <2>3, <4>1 DEF Examined, View
    <3> QED  BY <3>1, <3>2
  <2>7. Constraints(db)' <=> Constraints(db)
    BY <2>4 DEF Constraints, HasOwner, Owners, Active, Peopled, PairIntact, People, IsDM, MembersOnly, MaySit
  <2> QED  BY <2>4, <2>5, <2>6, <2>7 DEF ChecksHold
<1> QED  BY <1>2, <1>3

LEMMA CommitHolds ==
  ASSUME Sound, ChecksHold, NEW t \in Request, Commit(t)
  PROVE  ChecksHold'
<1> SUFFICES ASSUME ~raced'
             PROVE  Constraints(db') /\ \A o \in Request : tx'[o].pc = "check" => Examined(tx'[o], db')
  BY DEF ChecksHold
<1>1. PICK w : w = tx[t].writes  OBVIOUS
<1>2. /\ tx \in [Request -> TxType] /\ TxOK(tx[t], db) /\ TablesOK(db)
      /\ Fits(w) /\ DOMAIN w \subseteq Row /\ RowsOK(w, tx[t].told, db)
  BY <1>1, TxFields, SightOf DEF Sound, TxOK
<1>3. PICK z : z = Overlay(w, db)  OBVIOUS
<1>4. db' = z /\ tx' = [tx EXCEPT ![t] = Idle] /\ ~raced  BY <1>1, <1>3 DEF Commit, View
<1>5. w = NoRows \/ \A o \in Others(t) : tx[o].pc # "check"  BY <1>1 DEF Commit, At
<1>6. tx'[t] = Idle /\ \A o \in Request \ {t} : tx'[o] = tx[o]  BY <1>2, <1>4, IdleFields
<1>7. Constraints(z)
  <2>1. \A k \in Due(w) : Passes(z, k)
    <3>1. CASE tx[t].pc = "check"  BY <1>1, <1>3, <1>4, <3>1 DEF ChecksHold, Examined, Commit
    <3>2. CASE tx[t].pc # "check"  BY <1>1, <1>2, <3>2 DEF TxOK, ChecksQueued, Commit
    <3> QED  BY <3>1, <3>2
  <2>2. Constraints(db)  BY <1>4 DEF ChecksHold
  <2> QED  BY <1>2, <1>3, <2>1, <2>2, DueSuffices
<1>8. ASSUME NEW o \in Request, tx'[o].pc = "check" PROVE Examined(tx'[o], z)
  <2>1. o # t  BY <1>6, <1>8, IdleFields
  <2>2. tx'[o] = tx[o] /\ tx[o].pc = "check"  BY <1>6, <1>8, <2>1
  <2>3. w = NoRows  BY <1>5, <2>1, <2>2 DEF Others
  <2>4. DOMAIN z = DOMAIN db /\ \A r \in DOMAIN db : z[r] = db[r]
    BY <1>2, <1>3, <2>3, UnwrittenOK DEF TablesOK, IsTables, Overlay
  <2>5. Overlay(tx[o].writes, z) = Overlay(tx[o].writes, db)  BY <2>4 DEF Overlay
  <2>6. Examined(tx[o], db)  BY <1>4, <2>2 DEF ChecksHold
  <2> QED  BY <2>2, <2>5, <2>6 DEF Examined
<1> QED  BY <1>4, <1>7, <1>8

LEMMA StutterHolds ==
  ASSUME ChecksHold, UNCHANGED <<vars, scene>>
  PROVE  ChecksHold'
BY DEF ChecksHold, Examined, vars, Constraints, HasOwner, Owners, Active, Peopled, PairIntact, People, IsDM,
       MembersOnly, MaySit

\* Unless another commit comes between the first check of a transaction and its
\* own commit, the tables keep what the deferred triggers demand: an owner, no
\* conversation of members without participants, pairs of two, and private
\* conversations of active members.
THEOREM TriggersHoldUnlessRaced == Spec => []ConstraintsUnlessRaced
<1>1. Init => ChecksHold
  <2> SUFFICES ASSUME Init PROVE ChecksHold  OBVIOUS
  <2>1. db = Here.start /\ scene \in DOMAIN Scenes /\ \A t \in Request : tx[t] = Idle  BY DEF Init
  <2>2. Constraints(db)  BY <2>1, ScenesAssumption DEF Here
  <2>3. \A t \in Request : tx[t].pc # "check"  BY <2>1, IdleFields
  <2> QED  BY <2>2, <2>3 DEF ChecksHold
<1>2. Sound /\ ChecksHold /\ [Next]_<<vars, scene>> => ChecksHold'
  <2> SUFFICES ASSUME Sound, ChecksHold, [Next]_<<vars, scene>> PROVE ChecksHold'  OBVIOUS
  <2>1. CASE Next
    <3>1. PICK t \in Request :
            Arrive(t) \/ ConversationStep(t) \/ MembershipStep(t) \/ RunCheck(t) \/ Commit(t) \/ Abort(t)
      BY <2>1 DEF Next
    <3>2. CASE Arrive(t)  BY <3>2, ArriveMoves, MovesKeepChecks
    <3>3. CASE ConversationStep(t)  BY <3>3, ConversationStepMoves, MovesKeepChecks
    <3>4. CASE MembershipStep(t)  BY <3>4, MembershipStepMoves, MovesKeepChecks
    <3>5. CASE RunCheck(t)  BY <3>5, RunCheckHolds
    <3>6. CASE Commit(t)  BY <3>6, CommitHolds
    <3>7. CASE Abort(t)  BY <3>7, RollbackMoves, MovesKeepChecks DEF Abort
    <3> QED  BY <3>1, <3>2, <3>3, <3>4, <3>5, <3>6, <3>7
  <2>2. CASE UNCHANGED <<vars, scene>>  BY <2>2, StutterHolds
  <2> QED  BY <2>1, <2>2
<1>3. ChecksHold => ConstraintsUnlessRaced  BY DEF ChecksHold, ConstraintsUnlessRaced
<1> QED  BY <1>1, <1>2, <1>3, WorkspaceSound, PTL DEF Spec

-----------------------------------------------------------------------------
(* One request at a time: what the handlers check themselves leaves the    *)
(* deferred checks nothing to find.                                        *)

\* z is v but for the rows of R.
Besides(v, z, R) == \A r \in Row : r \notin R => z[r] = v[r]

RoomsKept(z) == HasOwner(z) /\ \A c \in Conversation : Peopled(z, c) /\ PairIntact(z, c)

\* What the only transaction in progress, x, has seen to in the tables z that
\* it sees. Between the change of a member and the end of its stay in private
\* conversations, that member's seats are excepted.
Lone(x, z) ==
  /\ x.pc \notin {"list rooms", "leave rooms"} => Constraints(z)
  /\ x.pc = "insert" /\ x.do.scope = "private" => \A u \in Everyone(x.do) : Active(z, u)
  /\ x.pc = "add" /\ z[Conv(x.do.conv)].scope = "private" => \A u \in x.todo : Active(z, u)
  /\ x.pc = "delete" => \E a, b \in People(z, x.do.conv) : a # b
  /\ x.pc = "sit" /\ z[Conv(z[Share(x.do.link)].conv)].scope = "private" => Active(z, x.do.by)
  /\ x.pc \in {"list rooms", "leave rooms"} =>
       RoomsKept(z) /\ \A c \in Conversation, u \in User \ {x.do.user} : MaySit(z, c, u)
  /\ x.pc = "leave rooms" => \A c \in Conversation :
       IF c \in x.todo THEN \E u \in People(z, c) : u # x.do.user ELSE MaySit(z, c, x.do.user)

\* The transactions x over the tables v: one at a time.
OneAlone(x, v) ==
  /\ Constraints(v)
  /\ \A t, o \in Request : x[t] # Idle /\ x[o] # Idle => t = o
  /\ \A t \in Request : x[t] # Idle => Lone(x[t], Overlay(x[t].writes, v))

Serial == Here.atOnce = 1 => OneAlone(tx, db)

LEMMA TwoOf ==
  ASSUME NEW S, ~(Cardinality(S) <= 1)
  PROVE  \E a, b \in S : a # b
<1> SUFFICES ASSUME \A a, b \in S : a = b PROVE FALSE  OBVIOUS
<1>1. S # {}  BY FS_EmptySet
<1>2. PICK a \in S : TRUE  BY <1>1
<1>3. S = {a}  BY <1>2
<1>4. Cardinality({a}) = 1  BY FS_Singleton
<1> QED  BY <1>3, <1>4

LEMMA SameParts ==
  ASSUME NEW v, NEW z
  PROVE  /\ (\A u \in User : z[Member(u)] = v[Member(u)]) =>
              Owners(z) = Owners(v) /\ \A u \in User : Active(z, u) <=> Active(v, u)
         /\ \A c \in Conversation : (\A u \in User : z[Seat(c, u)] = v[Seat(c, u)]) => People(z, c) = People(v, c)
         /\ (\A p \in Couple : z[Pair(p)] = v[Pair(p)]) => \A c \in Conversation : IsDM(z, c) <=> IsDM(v, c)
<1>1. ASSUME \A u \in User : z[Member(u)] = v[Member(u)]
      PROVE  Owners(z) = Owners(v) /\ \A u \in User : Active(z, u) <=> Active(v, u)
  BY <1>1 DEF Owners, Active
<1>2. ASSUME NEW c \in Conversation, \A u \in User : z[Seat(c, u)] = v[Seat(c, u)]
      PROVE  People(z, c) = People(v, c)
  BY <1>2 DEF People
<1>3. ASSUME \A p \in Couple : z[Pair(p)] = v[Pair(p)], NEW c \in Conversation
      PROVE  IsDM(z, c) <=> IsDM(v, c)
  BY <1>3 DEF IsDM
<1> QED  BY <1>1, <1>2, <1>3

\* A room with the same row, the same people and the same pair, or none.
LEMMA RoomStays ==
  ASSUME NEW v, NEW z, NEW c \in Conversation, Peopled(v, c), PairIntact(v, c),
         z[Conv(c)] = v[Conv(c)], People(z, c) = People(v, c), IsDM(z, c) => IsDM(v, c)
  PROVE  Peopled(z, c) /\ PairIntact(z, c)
<1>1. Peopled(z, c)  BY DEF Peopled, MembersOnly
<1>2. PairIntact(z, c)  BY DEF PairIntact
<1> QED  BY <1>1, <1>2

\* Links and invites are in no constraint.
LEMMA OtherRowsApart ==
  ASSUME NEW v, NEW z, Constraints(v), NEW R, Besides(v, z, R),
         \A r \in R : (\E l : r = Share(l)) \/ (\E i : r = Asked(i))
  PROVE  Constraints(z)
<1>1. /\ \A u : Member(u) \notin R /\ \A c : Conv(c) \notin R /\ \A d, x : Seat(d, x) \notin R
      /\ \A p : Pair(p) \notin R
  BY RowKeys
<1>2. /\ \A u \in User : z[Member(u)] = v[Member(u)]
      /\ \A c \in Conversation : z[Conv(c)] = v[Conv(c)]
      /\ \A c \in Conversation, u \in User : z[Seat(c, u)] = v[Seat(c, u)]
      /\ \A p \in Couple : z[Pair(p)] = v[Pair(p)]
  BY <1>1, RowsOfTables DEF Besides
<1>3. /\ Owners(z) = Owners(v) /\ \A u \in User : Active(z, u) <=> Active(v, u)
      /\ \A c \in Conversation : People(z, c) = People(v, c) /\ (IsDM(z, c) <=> IsDM(v, c))
  BY <1>2, SameParts
<1>4. HasOwner(z)  BY <1>3 DEF Constraints, HasOwner
<1>5. \A c \in Conversation : Peopled(z, c) /\ PairIntact(z, c)
  BY <1>2, <1>3, RoomStays DEF Constraints
<1>6. \A c \in Conversation, u \in User : MaySit(z, c, u)  BY <1>2, <1>3 DEF Constraints, MaySit
<1> QED  BY <1>4, <1>5, <1>6 DEF Constraints

\* What one row of the seats leaves as it was.
LEMMA SeatAlone ==
  ASSUME NEW v, NEW z, NEW c \in Conversation, NEW u \in User, Besides(v, z, {Seat(c, u)})
  PROVE  /\ Owners(z) = Owners(v) /\ \A x \in User : Active(z, x) <=> Active(v, x)
         /\ \A d \in Conversation : z[Conv(d)] = v[Conv(d)] /\ (IsDM(z, d) <=> IsDM(v, d))
         /\ \A d \in Conversation, x \in User : d # c \/ x # u => z[Seat(d, x)] = v[Seat(d, x)]
         /\ \A d \in Conversation : d # c => People(z, d) = People(v, d)
<1>1. /\ \A x : Member(x) # Seat(c, u) /\ Conv(x) # Seat(c, u) /\ Pair(x) # Seat(c, u)
      /\ \A d, x : d # c \/ x # u => Seat(d, x) # Seat(c, u)
  BY RowKeys
<1>2. /\ \A x \in User : z[Member(x)] = v[Member(x)]
      /\ \A d \in Conversation : z[Conv(d)] = v[Conv(d)]
      /\ \A d \in Conversation, x \in User : d # c \/ x # u => z[Seat(d, x)] = v[Seat(d, x)]
      /\ \A p \in Couple : z[Pair(p)] = v[Pair(p)]
  BY <1>1, RowsOfTables DEF Besides
<1>3. \A d \in Conversation : d # c => People(z, d) = People(v, d)  BY <1>2, SameParts
<1> QED  BY <1>2, <1>3, SameParts

LEMMA SeatTaken ==
  ASSUME NEW v, NEW z, Constraints(v), NEW c \in Conversation, NEW u \in User,
         Besides(v, z, {Seat(c, u)}), z[Seat(c, u)], ~IsDM(v, c),
         v[Conv(c)].scope = "private" => Active(v, u)
  PROVE  Constraints(z)
<1>1. /\ Owners(z) = Owners(v) /\ \A x \in User : Active(z, x) <=> Active(v, x)
      /\ \A d \in Conversation : z[Conv(d)] = v[Conv(d)] /\ (IsDM(z, d) <=> IsDM(v, d))
      /\ \A d \in Conversation, x \in User : d # c \/ x # u => z[Seat(d, x)] = v[Seat(d, x)]
      /\ \A d \in Conversation : d # c => People(z, d) = People(v, d)
  BY SeatAlone
<1>2. HasOwner(z)  BY <1>1 DEF Constraints, HasOwner
<1>3. ASSUME NEW d \in Conversation PROVE Peopled(z, d) /\ PairIntact(z, d)
  <2>1. CASE d # c  BY <1>1, <2>1, RoomStays DEF Constraints
  <2>2. CASE d = c
    <3>1. u \in People(z, d)  BY <2>2 DEF People
    <3> QED  BY <1>1, <2>2, <3>1 DEF Peopled, PairIntact
  <2> QED  BY <2>1, <2>2
<1>4. ASSUME NEW d \in Conversation, NEW x \in User PROVE MaySit(z, d, x)
  <2>1. MaySit(v, d, x)  BY DEF Constraints
  <2> QED  BY <1>1, <2>1 DEF MaySit
<1> QED  BY <1>2, <1>3, <1>4 DEF Constraints

LEMMA SeatLeft ==
  ASSUME NEW v, NEW z, RoomsKept(v), NEW c \in Conversation, NEW u \in User,
         Besides(v, z, {Seat(c, u)}), ~z[Seat(c, u)], ~IsDM(v, c),
         NEW o \in People(v, c), o # u
  PROVE  /\ RoomsKept(z) /\ MaySit(z, c, u)
         /\ \A d \in Conversation, x \in User : MaySit(v, d, x) => MaySit(z, d, x)
         /\ \A d \in Conversation : d # c => People(z, d) = People(v, d)
<1>1. /\ Owners(z) = Owners(v) /\ \A x \in User : Active(z, x) <=> Active(v, x)
      /\ \A d \in Conversation : z[Conv(d)] = v[Conv(d)] /\ (IsDM(z, d) <=> IsDM(v, d))
      /\ \A d \in Conversation, x \in User : d # c \/ x # u => z[Seat(d, x)] = v[Seat(d, x)]
      /\ \A d \in Conversation : d # c => People(z, d) = People(v, d)
  BY SeatAlone
<1>2. HasOwner(z)  BY <1>1 DEF RoomsKept, HasOwner
<1>3. ASSUME NEW d \in Conversation PROVE Peopled(z, d) /\ PairIntact(z, d)
  <2>1. CASE d # c  BY <1>1, <2>1, RoomStays DEF RoomsKept
  <2>2. CASE d = c
    <3>1. o \in User /\ v[Seat(c, o)]  BY DEF People
    <3>2. o \in People(z, d)  BY <1>1, <2>2, <3>1 DEF People
    <3> QED  BY <1>1, <2>2, <3>2 DEF Peopled, PairIntact
  <2> QED  BY <2>1, <2>2
<1>4. MaySit(z, c, u)  BY DEF MaySit
<1>5. ASSUME NEW d \in Conversation, NEW x \in User, MaySit(v, d, x) PROVE MaySit(z, d, x)
  <2>1. CASE d = c /\ x = u  BY <1>4, <2>1
  <2>2. CASE d # c \/ x # u  BY <1>1, <1>5, <2>2 DEF MaySit
  <2> QED  BY <2>1, <2>2
<1> QED  BY <1>1, <1>2, <1>3, <1>4, <1>5 DEF RoomsKept

LEMMA MemberTurned ==
  ASSUME NEW v, NEW z, Constraints(v), NEW u \in User, Besides(v, z, {Member(u)}),
         \/ z[Member(u)].role = "owner" /\ z[Member(u)].status = "active"
         \/ \E o \in Owners(v) : o # u
  PROVE  /\ RoomsKept(z) /\ \A c \in Conversation, x \in User \ {u} : MaySit(z, c, x)
         /\ z[Member(u)].status = "active" => Constraints(z)
<1>1. /\ \A x : x # u => Member(x) # Member(u) /\ \A d : Conv(d) # Member(u) /\ \A e, y : Seat(e, y) # Member(u)
      /\ \A x : Conv(x) # Member(u) /\ Pair(x) # Member(u)
      /\ \A d, x : Seat(d, x) # Member(u)
  BY RowKeys
<1>2. /\ \A x \in User : x # u => z[Member(x)] = v[Member(x)]
      /\ \A d \in Conversation : z[Conv(d)] = v[Conv(d)]
      /\ \A d \in Conversation, x \in User : z[Seat(d, x)] = v[Seat(d, x)]
      /\ \A p \in Couple : z[Pair(p)] = v[Pair(p)]
  BY <1>1, RowsOfTables DEF Besides
<1>3. \A d \in Conversation : People(z, d) = People(v, d) /\ (IsDM(z, d) <=> IsDM(v, d))
  BY <1>2, SameParts
<1>4. HasOwner(z)
  <2>1. CASE z[Member(u)].role = "owner" /\ z[Member(u)].status = "active"
    BY <2>1 DEF HasOwner, Owners, Active
  <2>2. ASSUME NEW o \in Owners(v), o # u PROVE HasOwner(z)  BY <1>2, <2>2 DEF HasOwner, Owners, Active
  <2> QED  BY <2>1, <2>2
<1>5. \A d \in Conversation : Peopled(z, d) /\ PairIntact(z, d)
  BY <1>2, <1>3, RoomStays DEF Constraints
<1>6. ASSUME NEW d \in Conversation, NEW x \in User, x # u \/ z[Member(u)].status = "active"
      PROVE  MaySit(z, d, x)
  <2>1. MaySit(v, d, x)  BY DEF Constraints
  <2>2. Active(v, x) => Active(z, x)  BY <1>2, <1>6 DEF Active
  <2> QED  BY <1>2, <2>1, <2>2 DEF MaySit
<1> QED  BY <1>4, <1>5, <1>6 DEF RoomsKept, Constraints

LEMMA RoomMade ==
  ASSUME NEW v, NEW z, TablesOK(v), Constraints(v), NEW c \in Conversation, NEW l, NEW do \in Command,
         do.op = "createConversation", v[Conv(c)].scope = "none",
         do.scope = "private" => \A u \in Everyone(do) : Active(v, u),
         NEW w, NewRows(w, c, l, do), Besides(v, z, DOMAIN w), \A r \in DOMAIN w : z[r] = w[r]
  PROVE  Constraints(z)
<1>1. do.by \in User /\ do.who \subseteq User /\ do.scope \in Scope  BY CommandFields
<1>2. /\ \A x \in User : z[Member(x)] = v[Member(x)]
      /\ \A d \in Conversation : d # c =>
           z[Conv(d)] = v[Conv(d)] /\ \A x \in User : z[Seat(d, x)] = v[Seat(d, x)]
      /\ \A p \in Couple : Pair(p) \notin DOMAIN w => z[Pair(p)] = v[Pair(p)]
  BY RowsOfTables DEF Besides, NewRows
<1>3. Owners(z) = Owners(v) /\ \A x \in User : Active(z, x) <=> Active(v, x)  BY <1>2, SameParts
<1>4. \A x \in User : ~v[Seat(c, x)]  BY DEF TablesOK, References, MembersOnly
<1>5. z[Conv(c)].scope = do.scope
  <2>1. z[Conv(c)] = [scope |-> do.scope, creator |-> do.by]  BY DEF NewRows
  <2> QED  BY <2>1
<1>6. ASSUME NEW x \in User
      PROVE  /\ do.scope # "wide" => (z[Seat(c, x)] <=> x \in Everyone(do))
             /\ do.scope = "wide" => ~z[Seat(c, x)]
  <2>1. CASE Seat(c, x) \in DOMAIN w  BY <2>1 DEF NewRows
  <2>2. CASE Seat(c, x) \notin DOMAIN w
    <3>1. z[Seat(c, x)] = v[Seat(c, x)]  BY <2>2, RowsOfTables DEF Besides
    <3>2. do.scope = "wide" \/ x \notin Everyone(do)  BY <2>2 DEF NewRows
    <3> QED  BY <1>4, <3>1, <3>2
  <2> QED  BY <2>1, <2>2
<1>7. ASSUME NEW p \in Couple, NEW d \in Conversation, z[Pair(p)] = d
      PROVE  \/ v[Pair(p)] = d /\ d # c
             \/ d = c /\ DirectMessage(do)
  <2>1. CASE Pair(p) \in DOMAIN w
    <3>1. DirectMessage(do) /\ p = Everyone(do)  BY <2>1 DEF NewRows
    <3>2. w[Pair(p)] = c  BY <3>1 DEF NewRows
    <3> QED  BY <1>7, <2>1, <3>1, <3>2
  <2>2. CASE Pair(p) \notin DOMAIN w
    <3>1. v[Pair(p)] = d /\ d # None  BY <1>2, <1>7, <2>2, NoneAssumption
    <3>2. MembersOnly(v, d)  BY <3>1 DEF TablesOK, References
    <3>3. d # c  BY <3>2 DEF MembersOnly
    <3> QED  BY <3>1, <3>3
  <2> QED  BY <2>1, <2>2
<1>8. HasOwner(z)  BY <1>3 DEF Constraints, HasOwner
<1>9. ASSUME NEW d \in Conversation, d # c PROVE Peopled(z, d) /\ PairIntact(z, d)
  <2>1. IsDM(z, d) => IsDM(v, d)  BY <1>7, <1>9 DEF IsDM
  <2>2. z[Conv(d)] = v[Conv(d)] /\ People(z, d) = People(v, d)  BY <1>2, <1>9, SameParts
  <2> QED  BY <2>1, <2>2, RoomStays DEF Constraints
<1>10. Everyone(do) \subseteq User /\ do.by \in Everyone(do)  BY <1>1 DEF Everyone
<1>11. do.scope # "wide" => People(z, c) = Everyone(do)  BY <1>6, <1>10 DEF People
<1>12. Peopled(z, c)  BY <1>5, <1>10, <1>11 DEF Peopled, MembersOnly
<1>13. PairIntact(z, c)
  <2>1. ASSUME IsDM(z, c) PROVE DirectMessage(do)  BY <1>7, <2>1 DEF IsDM
  <2>2. ASSUME DirectMessage(do) PROVE do.scope = "global" /\ Cardinality(Everyone(do)) = 2
    BY <2>2 DEF DirectMessage
  <2> QED  BY <1>5, <1>11, <2>1, <2>2 DEF PairIntact
<1>14. ASSUME NEW d \in Conversation, NEW x \in User PROVE MaySit(z, d, x)
  <2>1. CASE d = c  BY <1>3, <1>5, <1>6, <2>1 DEF MaySit
  <2>2. CASE d # c
    <3>1. MaySit(v, d, x)  BY DEF Constraints
    <3> QED  BY <1>2, <1>3, <2>2, <3>1 DEF MaySit
  <2> QED  BY <2>1, <2>2
<1> QED  BY <1>8, <1>9, <1>12, <1>13, <1>14 DEF Constraints

-----------------------------------------------------------------------------
\* The step of a transaction that is alone, or its rollback.
LoneStep(t) == \E y : Becomes(t, y) /\ (y = Idle \/ Lone(y, Overlay(y.writes, db)))

LEMMA RollbackLone ==
  ASSUME NEW t \in Request, Rollback(t)
  PROVE  LoneStep(t)
BY DEF Rollback, LoneStep

\* Steps at which nothing more is known than that the constraints hold.
PlainSteps == Step \ {"insert", "add", "delete", "sit", "list rooms", "leave rooms"}

LEMMA PlainLone ==
  ASSUME NEW y, y.pc \in PlainSteps, NEW z, Constraints(z)
  PROVE  Lone(y, z)
BY DEF Lone, PlainSteps

\* The next statement of the handler.
LEMMA GoneOn ==
  ASSUME Sound, NEW t \in Request, NEW pc \in Step
  PROVE  LET y == [tx[t] EXCEPT !.pc = pc]
         IN y.pc = pc /\ y.do = tx[t].do /\ y.todo = tx[t].todo /\ y.writes = tx[t].writes
<1>1. tx[t] \in TxType  BY TxFields
<1> QED  BY <1>1 DEF TxType

LEMMA GotoLone ==
  ASSUME Sound, NEW t \in Request, Constraints(View(t)), NEW pc \in PlainSteps, Goto(t, pc)
  PROVE  LoneStep(t)
<1>1. PICK y : y = [tx[t] EXCEPT !.pc = pc]  OBVIOUS
<1>2. y.pc = pc /\ y.writes = tx[t].writes  BY <1>1, GoneOn DEF PlainSteps
<1>3. Lone(y, View(t))  BY <1>2, PlainLone
<1> QED  BY <1>1, <1>2, <1>3 DEF Goto, LoneStep, View

\* A lock taken or a value noted.
LEMMA ReadLone ==
  ASSUME NEW t \in Request, Constraints(View(t)), NEW y, y.pc \in PlainSteps, y.writes = tx[t].writes,
         Becomes(t, y)
  PROVE  LoneStep(t)
<1>1. Lone(y, View(t))  BY PlainLone
<1> QED  BY <1>1 DEF LoneStep, View

\* What a transaction sees after a write.
LEMMA SightWritten ==
  ASSUME Sound, NEW t \in Request, NEW w, NEW y, y.writes = Overlay(w, tx[t].writes)
  PROVE  /\ Besides(View(t), Overlay(y.writes, db), DOMAIN w)
         /\ \A r \in DOMAIN w : Overlay(y.writes, db)[r] = w[r]
<1>1. PICK x : x = tx[t].writes  OBVIOUS
<1>2. PICK n : n = Overlay(w, x)  OBVIOUS
<1>3. /\ \A r \in DOMAIN w : r \in DOMAIN n /\ n[r] = w[r]
      /\ \A r : r \notin DOMAIN w => (r \in DOMAIN n <=> r \in DOMAIN x) /\ (r \in DOMAIN x => n[r] = x[r])
  BY <1>2 DEF Overlay
<1>4. IsTables(db)  BY DEF Sound, TablesOK
<1>5. /\ \A r \in DOMAIN n : Overlay(n, db)[r] = n[r]
      /\ \A r \in Row : r \notin DOMAIN n => Overlay(n, db)[r] = db[r]
  BY <1>4, Sight
<1>6. /\ \A r \in DOMAIN x : View(t)[r] = x[r]
      /\ \A r \in Row : r \notin DOMAIN x => View(t)[r] = db[r]
  BY <1>1, SightOf
<1>7. y.writes = n  BY <1>1, <1>2
<1> QED  BY <1>3, <1>5, <1>6, <1>7 DEF Besides

\* Before the first write it sees what is committed.
LEMMA SightUnwritten ==
  ASSUME Sound, NEW t \in Request, tx[t].writes = NoRows
  PROVE  \A r \in Row : View(t)[r] = db[r]
BY SightOf, NoRowsWritten

\* What the transaction that makes the step has written, and its request.
LEMMA LoneFields ==
  ASSUME Sound, NEW t \in Request, tx[t].pc # "idle"
  PROVE  /\ tx[t] \in TxType /\ tx[t].do \in Command
         /\ OpOfStep(tx[t]) /\ WrittenBy(tx[t]) /\ StillSo(tx[t], db)
BY TxFields DEF TxOK

-----------------------------------------------------------------------------
LEMMA LookUpLone ==
  ASSUME Sound, NEW t \in Request, Lone(tx[t], View(t)), LookUp(t)
  PROVE  LoneStep(t)
<1>1. tx[t].pc = "look up" /\ Constraints(View(t))  BY DEF LookUp, At, Lone
<1>2. CASE Goto(t, "done")  BY <1>1, <1>2, GotoLone DEF PlainSteps, Step
<1>3. CASE ~Rollback(t) /\ Goto(t, "insert")
  <2>1. PICK y : y = [tx[t] EXCEPT !.pc = "insert"]  OBVIOUS
  <2>2. y.pc = "insert" /\ y.do = tx[t].do /\ y.writes = tx[t].writes  BY <2>1, GoneOn DEF Step
  <2>3. tx[t].do.scope = "private" => \A u \in Everyone(tx[t].do) : Active(View(t), u)
    BY <1>3 DEF LookUp
  <2>4. Lone(y, View(t))  BY <1>1, <2>2, <2>3 DEF Lone
  <2> QED  BY <1>3, <2>1, <2>2, <2>4 DEF Goto, LoneStep, View
<1>4. Rollback(t) \/ Goto(t, "done") \/ Goto(t, "insert")  BY DEF LookUp
<1> QED  BY <1>2, <1>3, <1>4, RollbackLone

LEMMA InsertConversationLone ==
  ASSUME Sound, NEW t \in Request, Lone(tx[t], View(t)), InsertConversation(t)
  PROVE  LoneStep(t)
<1> DEFINE do == tx[t].do  pair == Pair(Everyone(do))
<1>1. tx[t].pc = "insert" /\ Constraints(View(t)) /\ "done" \in Step
  BY DEF InsertConversation, At, Lone, Step
<1>2. do \in Command /\ do.op = "createConversation" /\ tx[t].writes = NoRows
  BY <1>1, LoneFields DEF OpOfStep, WrittenBy, Returned
<1>3. \A r \in Row : View(t)[r] = db[r]  BY <1>2, SightUnwritten
<1>4. TablesOK(db) /\ Constraints(db)
  <2>1. Besides(View(t), db, {})  BY <1>3 DEF Besides
  <2> QED  BY <1>1, <2>1, OtherRowsApart DEF Sound
<1>5. do.scope = "private" => \A u \in Everyone(do) : Active(db, u)
  <2>1. ASSUME do.scope = "private", NEW u \in Everyone(do) PROVE Active(db, u)
    <3>1. Active(View(t), u)  BY <1>1, <2>1 DEF Lone
    <3>2. u \in User  BY <1>2, <2>1, CommandFields DEF Everyone
    <3> QED  BY <1>3, <3>1, <3>2, RowsOfTables DEF Active
  <2> QED  BY <2>1
<1>6. ASSUME NEW c \in Conversation, NEW l \in Link, FreshConv(c),
             Becomes(t, [Wrote(t, NewConversation(c, l, do), DOMAIN NewConversation(c, l, do) \ {pair})
                         EXCEPT !.pc = "done"])
      PROVE  LoneStep(t)
  <2>1. PICK w \in Written : w = NewConversation(c, l, do) /\ NewRows(w, c, l, do)
    BY <1>2, NewConversationWritten, NewConversationRows
  <2>2. PICK T : T = DOMAIN w \ {pair}  OBVIOUS
  <2>3. PICK y : y = Moved(Wrote(t, w, T), "done")  OBVIOUS
  <2>4. Becomes(t, y)  BY <1>6, <2>1, <2>2, <2>3 DEF Moved
  <2>5. T \subseteq Row  BY <2>2, WrittenIs
  <2>6. WroteTo(tx[t], y, w, T) /\ y.pc = "done"  BY <1>1, <2>3, <2>5, WroteMoved
  <2>7. PICK z : z = Overlay(y.writes, db)  OBVIOUS
  <2>8. Besides(View(t), z, DOMAIN w) /\ \A r \in DOMAIN w : z[r] = w[r]
    BY <2>6, <2>7, SightWritten DEF WroteTo
  <2>9. Besides(db, z, DOMAIN w)  BY <1>3, <2>8 DEF Besides
  <2>10. db[Conv(c)].scope = "none"  BY <1>6 DEF FreshConv
  <2>11. Constraints(z)  BY <1>2, <1>4, <1>5, <2>1, <2>8, <2>9, <2>10, RoomMade
  <2>12. Lone(y, z)  BY <1>1, <2>6, <2>11, PlainLone DEF PlainSteps
  <2> QED  BY <2>4, <2>7, <2>12 DEF LoneStep
<1> QED  BY <1>6, RollbackLone DEF InsertConversation

LEMMA CheckMembersLone ==
  ASSUME Sound, NEW t \in Request, Lone(tx[t], View(t)), CheckMembers(t)
  PROVE  LoneStep(t)
<1> DEFINE do == tx[t].do
<1>1. tx[t].pc = "members" /\ Constraints(View(t))  BY DEF CheckMembers, At, Lone
<1>2. /\ tx[t] \in TxType /\ do.conv \in Conversation /\ do.who \subseteq User /\ tx[t].writes = NoRows
  BY <1>1, LoneFields, CommandFields DEF OpOfStep, WrittenBy, Returned
<1>3. View(t)[Conv(do.conv)] = db[Conv(do.conv)]  BY <1>2, SightUnwritten, RowsOfTables
<1>4. CASE ~Rollback(t) /\ Becomes(t, [tx[t] EXCEPT !.todo = do.who, !.pc = "add"])
  <2>1. PICK y : y = [tx[t] EXCEPT !.todo = do.who, !.pc = "add"]  OBVIOUS
  <2>2. y.pc = "add" /\ y.do = do /\ y.writes = tx[t].writes /\ y.todo = do.who
    BY <1>2, <2>1 DEF TxType
  <2>3. db[Conv(do.conv)].scope = "private" => \A u \in do.who : Active(View(t), u)
    BY <1>4 DEF CheckMembers
  <2>4. Lone(y, View(t))  BY <1>1, <1>3, <2>2, <2>3 DEF Lone
  <2> QED  BY <1>4, <2>1, <2>2, <2>4 DEF LoneStep, View
<1>5. Rollback(t) \/ Becomes(t, [tx[t] EXCEPT !.todo = do.who, !.pc = "add"])  BY DEF CheckMembers
<1> QED  BY <1>4, <1>5, RollbackLone

LEMMA AddOneLone ==
  ASSUME Sound, NEW t \in Request, Lone(tx[t], View(t)), AddOne(t)
  PROVE  LoneStep(t)
<1> DEFINE c == tx[t].do.conv
<1>1. tx[t].pc = "add" /\ Constraints(View(t))  BY DEF AddOne, At, Lone
<1>2. /\ tx[t] \in TxType /\ c \in Conversation /\ Mutable(db, c) /\ tx[t].todo \subseteq User
      /\ \A r \in DOMAIN tx[t].writes : \E u \in User : r = Seat(c, u)
  <2>1. tx[t] \in TxType /\ tx[t].do \in Command /\ tx[t].do.op = "addParticipants"
    BY <1>1, LoneFields DEF OpOfStep
  <2>2. c \in Conversation  BY <2>1, CommandFields
  <2>3. Mutable(db, c) /\ tx[t].todo \subseteq User  BY <1>1, LoneFields DEF StillSo
  <2>4. \A r \in DOMAIN tx[t].writes : \E u \in User : r = Seat(c, u)
    <3>1. WrittenBy(tx[t])  BY <1>1, LoneFields
    <3> QED  BY <1>1, <3>1 DEF WrittenBy
  <2> QED  BY <2>1, <2>2, <2>3, <2>4
<1>3. ~IsDM(View(t), c)
  <2>1. \A p \in Couple : Pair(p) \in Row /\ Pair(p) \notin DOMAIN tx[t].writes
    BY <1>2, RowKeys, RowsOfTables
  <2>2. \A p \in Couple : View(t)[Pair(p)] = db[Pair(p)]  BY <2>1, SightOf
  <2> QED  BY <1>2, <2>2, SameParts DEF Mutable
<1>4. CASE Goto(t, "done")  BY <1>1, <1>4, GotoLone DEF PlainSteps, Step
<1>5. ASSUME NEW u \in tx[t].todo, Becomes(t, [TakeSeat(t, c, u) EXCEPT !.todo = @ \ {u}])
      PROVE  LoneStep(t)
  <2>1. PICK y : y = [TakeSeat(t, c, u) EXCEPT !.todo = @ \ {u}]  OBVIOUS
  <2>2. u \in User  BY <1>2, <1>5
  <2>3. CASE View(t)[Seat(c, u)]
    <3>1. y.pc = "add" /\ y.do = tx[t].do /\ y.writes = tx[t].writes /\ y.todo \subseteq tx[t].todo
      BY <1>1, <1>2, <2>1, <2>3 DEF TxType, TakeSeat
    <3>2. Lone(y, View(t))  BY <1>1, <3>1 DEF Lone
    <3> QED  BY <1>5, <2>1, <3>1, <3>2 DEF LoneStep, View
  <2>4. CASE ~View(t)[Seat(c, u)]
    <3>1. PICK w : w = Only(Seat(c, u), TRUE)  OBVIOUS
    <3>2. w \in Written /\ {Seat(c, u)} \in SUBSET Row  BY <1>2, <2>2, <3>1, SeatOnly
    <3>3. PICK x : x = Wrote(t, w, {Seat(c, u)})  OBVIOUS
    <3>4. /\ x \in TxType /\ x.pc = tx[t].pc /\ x.do = tx[t].do /\ x.todo = tx[t].todo
          /\ x.writes = Overlay(w, tx[t].writes)
      BY <3>2, <3>3, WroteFields
    <3>5. y = [x EXCEPT !.todo = @ \ {u}]  BY <2>1, <2>4, <3>1, <3>3 DEF TakeSeat
    <3>6. /\ y.pc = "add" /\ y.do = tx[t].do /\ y.writes = Overlay(w, tx[t].writes)
          /\ y.todo \subseteq tx[t].todo
      BY <1>1, <3>4, <3>5 DEF TxType
    <3>7. PICK z : z = Overlay(y.writes, db)  OBVIOUS
    <3>8. Besides(View(t), z, {Seat(c, u)}) /\ z[Seat(c, u)] = TRUE
      <4>1. PICK r, b : r = Seat(c, u) /\ b = TRUE  OBVIOUS
      <4>2. w = Only(r, b)  BY <3>1, <4>1
      <4>3. DOMAIN w = {r} /\ w[r] = b  BY <4>2, OnlyOne
      <4>4. Besides(View(t), z, DOMAIN w) /\ \A x1 \in DOMAIN w : z[x1] = w[x1]
        BY <3>6, <3>7, SightWritten
      <4> QED  BY <4>1, <4>3, <4>4
    <3>9. View(t)[Conv(c)].scope = "private" => Active(View(t), u)  BY <1>1, <1>5 DEF Lone
    <3>10. Constraints(z)  BY <1>1, <1>2, <1>3, <2>2, <3>8, <3>9, SeatTaken
    <3>11. z[Conv(c)] = View(t)[Conv(c)] /\ \A x1 \in User : Active(z, x1) <=> Active(View(t), x1)
      <4>1. PICK v : v = View(t)  OBVIOUS
      <4>2. PICK d \in Conversation : d = c  BY <1>2
      <4>3. z[Conv(d)] = v[Conv(d)] /\ \A x1 \in User : Active(z, x1) <=> Active(v, x1)
        BY <2>2, <3>8, <4>1, <4>2, SeatAlone
      <4> QED  BY <4>1, <4>2, <4>3
    <3>12. z[Conv(c)].scope = "private" => \A x1 \in y.todo : Active(z, x1)
      BY <1>1, <1>2, <3>6, <3>11 DEF Lone
    <3>13. Lone(y, z)  BY <3>6, <3>10, <3>12 DEF Lone
    <3> QED  BY <1>5, <2>1, <3>7, <3>13 DEF LoneStep
  <2> QED  BY <2>3, <2>4
<1> QED  BY <1>4, <1>5 DEF AddOne

LEMMA CountPeopleLone ==
  ASSUME Sound, NEW t \in Request, Lone(tx[t], View(t)), CountPeople(t)
  PROVE  LoneStep(t)
<1> DEFINE c == tx[t].do.conv
<1>1. tx[t].pc = "count people" /\ Constraints(View(t))  BY DEF CountPeople, At, Lone
<1>2. CASE ~(Cardinality(People(View(t), c)) <= 1) /\ Goto(t, "delete")
  <2>1. \E a, b \in People(View(t), c) : a # b  BY <1>2, TwoOf
  <2>2. PICK y : y = [tx[t] EXCEPT !.pc = "delete"]  OBVIOUS
  <2>3. y.pc = "delete" /\ y.do = tx[t].do /\ y.writes = tx[t].writes  BY <2>2, GoneOn DEF Step
  <2>4. Lone(y, View(t))  BY <1>1, <2>1, <2>3 DEF Lone
  <2> QED  BY <1>2, <2>2, <2>3, <2>4 DEF Goto, LoneStep, View
<1>3. Rollback(t) \/ (~(Cardinality(People(View(t), c)) <= 1) /\ Goto(t, "delete"))  BY DEF CountPeople
<1> QED  BY <1>2, <1>3, RollbackLone

LEMMA DeleteLone ==
  ASSUME Sound, NEW t \in Request, Lone(tx[t], View(t)), Delete(t)
  PROVE  LoneStep(t)
<1> DEFINE c == tx[t].do.conv  u == tx[t].do.user
<1>1. /\ tx[t].pc = "delete" /\ Constraints(View(t)) /\ "done" \in Step
      /\ \E a, b \in People(View(t), c) : a # b
  BY DEF Delete, At, Lone, Step
<1>2. c \in Conversation /\ u \in User /\ Mutable(db, c) /\ tx[t].writes = NoRows
  <2>1. tx[t].do \in Command /\ tx[t].do.op = "deleteParticipant"  BY <1>1, LoneFields DEF OpOfStep
  <2>2. Mutable(db, c)  BY <1>1, LoneFields DEF StillSo
  <2>3. tx[t].writes = NoRows  BY <1>1, LoneFields DEF WrittenBy, Returned
  <2> QED  BY <2>1, <2>2, <2>3, CommandFields
<1>3. ~IsDM(View(t), c)
  <2>1. \A p \in Couple : View(t)[Pair(p)] = db[Pair(p)]  BY <1>2, SightUnwritten, RowsOfTables
  <2> QED  BY <1>2, <2>1, SameParts DEF Mutable
<1>4. PICK o \in People(View(t), c) : o # u  BY <1>1
<1>5. CASE Becomes(t, [LeaveSeat(t, c, u) EXCEPT !.pc = "done"])
  <2>1. PICK w : w = Only(Seat(c, u), FALSE)  OBVIOUS
  <2>2. w \in Written /\ {Seat(c, u)} \subseteq Row  BY <1>2, <2>1, SeatOnly
  <2>3. PICK T : T = {Seat(c, u)}  OBVIOUS
  <2>4. PICK y : y = Moved(Wrote(t, w, T), "done")  OBVIOUS
  <2>5. Becomes(t, y)  BY <1>5, <2>1, <2>3, <2>4 DEF Moved, LeaveSeat
  <2>6. WroteTo(tx[t], y, w, T) /\ y.pc = "done"  BY <1>1, <2>2, <2>3, <2>4, WroteMoved
  <2>7. PICK r, b : r = Seat(c, u) /\ b = FALSE  OBVIOUS
  <2>8. DOMAIN w = {r} /\ w[r] = b
    <3>1. w = Only(r, b)  BY <2>1, <2>7
    <3> QED  BY <3>1, OnlyOne
  <2>9. PICK z : z = Overlay(y.writes, db)  OBVIOUS
  <2>10. Besides(View(t), z, DOMAIN w) /\ \A x \in DOMAIN w : z[x] = w[x]
    BY <2>6, <2>9, SightWritten DEF WroteTo
  <2>11. RoomsKept(View(t))  BY <1>1 DEF RoomsKept, Constraints
  <2>12. Besides(View(t), z, {Seat(c, u)}) /\ ~z[Seat(c, u)]  BY <2>7, <2>8, <2>10
  <2>13. RoomsKept(z) /\ \A d \in Conversation, x \in User : MaySit(View(t), d, x) => MaySit(z, d, x)
    BY <1>2, <1>3, <1>4, <2>11, <2>12, SeatLeft
  <2>14. Constraints(z)  BY <1>1, <2>13 DEF RoomsKept, Constraints
  <2>15. Lone(y, z)  BY <2>6, <2>14, PlainLone DEF PlainSteps, Step
  <2> QED  BY <2>5, <2>9, <2>15 DEF LoneStep
<1> QED  BY <1>5, RollbackLone DEF Delete

LEMMA FindLinkLone ==
  ASSUME Sound, NEW t \in Request, Lone(tx[t], View(t)), FindLink(t)
  PROVE  LoneStep(t)
<1>1. Constraints(View(t)) /\ tx[t] \in TxType  BY TxFields DEF FindLink, At, Lone
<1>2. PICK found : found = ActiveLinks(View(t), tx[t].do.conv)  OBVIOUS
<1>3. PICK pc \in {"new link", "lock link"} : Becomes(t, [tx[t] EXCEPT !.todo = found, !.pc = pc])
  BY <1>2 DEF FindLink
<1>4. PICK y : y = [tx[t] EXCEPT !.todo = found, !.pc = pc]  OBVIOUS
<1>5. y.pc \in PlainSteps /\ y.writes = tx[t].writes  BY <1>1, <1>3, <1>4 DEF TxType, PlainSteps, Step
<1> QED  BY <1>1, <1>3, <1>4, <1>5, ReadLone

\* A link or an invite is written: no constraint is about them.
LEMMA OtherLone ==
  ASSUME Sound, NEW t \in Request, Constraints(View(t)),
         NEW r \in Row, (\E l : r = Share(l)) \/ (\E i : r = Asked(i)),
         NEW w \in Written, DOMAIN w = {r}, NEW T, T \subseteq {r}, NEW pc \in PlainSteps,
         Becomes(t, Moved(Wrote(t, w, T), pc))
  PROVE  LoneStep(t)
<1>1. pc \in Step /\ T \subseteq Row  BY DEF PlainSteps
<1>2. PICK y : y = Moved(Wrote(t, w, T), pc)  OBVIOUS
<1>3. WroteTo(tx[t], y, w, T) /\ y.pc = pc  BY <1>1, <1>2, WroteMoved
<1>4. PICK z : z = Overlay(y.writes, db)  OBVIOUS
<1>5. Besides(View(t), z, {r})  BY <1>3, <1>4, SightWritten DEF WroteTo
<1>6. \A x \in {r} : (\E l : x = Share(l)) \/ (\E i : x = Asked(i))  OBVIOUS
<1>7. Constraints(z)  BY <1>5, <1>6, OtherRowsApart
<1>8. Lone(y, z)  BY <1>3, <1>7, PlainLone
<1> QED  BY <1>2, <1>4, <1>8 DEF LoneStep

LEMMA LockLinkLone ==
  ASSUME Sound, NEW t \in Request, Lone(tx[t], View(t)), LockLink(t)
  PROVE  LoneStep(t)
<1> DEFINE c == tx[t].do.conv
<1>1. tx[t].pc = "lock link" /\ Constraints(View(t)) /\ tx[t] \in TxType
  BY TxFields DEF LockLink, At, Lone
<1>2. c \in Conversation /\ \A l \in tx[t].todo : l \in Link
  <2>1. tx[t].do \in Command /\ tx[t].do.op \in {"getShareLink", "rotateShareLink"}
    BY <1>1, LoneFields DEF OpOfStep
  <2>2. StillSo(tx[t], db)  BY <1>1, LoneFields
  <2>3. \A l \in tx[t].todo : l \in Link  BY <1>1, <2>2 DEF StillSo
  <2> QED  BY <2>1, <2>3, CommandFields
<1>3. PICK l \in tx[t].todo :
        \/ Goto(t, "new link")
        \/ Becomes(t, [tx[t] EXCEPT !.locks = @ \cup {Share(l)}, !.pc = "done"])
        \/ Becomes(t, [Wrote(t, Only(Share(l), [conv |-> c, active |-> FALSE]), {}) EXCEPT !.pc = "new link"])
  BY DEF LockLink
<1>4. CASE Goto(t, "new link")  BY <1>1, <1>4, GotoLone DEF PlainSteps, Step
<1>5. CASE Becomes(t, [tx[t] EXCEPT !.locks = @ \cup {Share(l)}, !.pc = "done"])
  <2>1. PICK y : y = [tx[t] EXCEPT !.locks = @ \cup {Share(l)}, !.pc = "done"]  OBVIOUS
  <2>2. y.pc = "done" /\ y.writes = tx[t].writes  BY <1>1, <2>1 DEF TxType
  <2>3. y.pc \in PlainSteps  BY <2>2 DEF PlainSteps, Step
  <2> QED  BY <1>1, <1>5, <2>1, <2>2, <2>3, ReadLone
<1>6. CASE Becomes(t, [Wrote(t, Only(Share(l), [conv |-> c, active |-> FALSE]), {}) EXCEPT !.pc = "new link"])
  <2>1. PICK w : w = Only(Share(l), [conv |-> c, active |-> FALSE])  OBVIOUS
  <2>2. l \in Link  BY <1>2, <1>3
  <2>3. w \in Written /\ DOMAIN w = {Share(l)} /\ Share(l) \in Row  BY <1>2, <2>1, <2>2, ShareOnly
  <2>4. PICK T : T = {}  OBVIOUS
  <2>5. Becomes(t, Moved(Wrote(t, w, T), "new link"))  BY <1>6, <2>1, <2>4 DEF Moved
  <2>6. "new link" \in PlainSteps /\ T \subseteq {Share(l)} /\ \E k : Share(l) = Share(k)
    BY <2>4 DEF PlainSteps, Step
  <2> QED  BY <1>1, <2>3, <2>5, <2>6, OtherLone
<1> QED  BY <1>3, <1>4, <1>5, <1>6

LEMMA NewLinkLone ==
  ASSUME Sound, NEW t \in Request, Lone(tx[t], View(t)), NewLink(t)
  PROVE  LoneStep(t)
<1> DEFINE c == tx[t].do.conv
<1>1. tx[t].pc = "new link" /\ Constraints(View(t))  BY DEF NewLink, At, Lone
<1>2. c \in Conversation
  <2>1. tx[t].do \in Command /\ tx[t].do.op \in {"getShareLink", "rotateShareLink"}
    BY <1>1, LoneFields DEF OpOfStep
  <2> QED  BY <2>1, CommandFields
<1>3. ASSUME NEW l \in Link,
             Becomes(t, [Wrote(t, Only(Share(l), [conv |-> c, active |-> TRUE]), {Share(l)}) EXCEPT !.pc = "done"])
      PROVE  LoneStep(t)
  <2>1. PICK w : w = Only(Share(l), [conv |-> c, active |-> TRUE])  OBVIOUS
  <2>2. w \in Written /\ DOMAIN w = {Share(l)} /\ Share(l) \in Row  BY <1>2, <2>1, ShareOnly
  <2>3. PICK T : T = {Share(l)}  OBVIOUS
  <2>4. Becomes(t, Moved(Wrote(t, w, T), "done"))  BY <1>3, <2>1, <2>3 DEF Moved
  <2>5. "done" \in PlainSteps /\ T \subseteq {Share(l)} /\ \E k : Share(l) = Share(k)
    BY <2>3 DEF PlainSteps, Step
  <2> QED  BY <1>1, <2>2, <2>4, <2>5, OtherLone
<1> QED  BY <1>3, RollbackLone DEF NewLink

LEMMA ReadLinkLone ==
  ASSUME Sound, NEW t \in Request, Lone(tx[t], View(t)), ReadLink(t)
  PROVE  LoneStep(t)
<1>1. Constraints(View(t)) /\ tx[t] \in TxType  BY TxFields DEF ReadLink, At, Lone
<1>2. PICK l : l = tx[t].do.link  OBVIOUS
<1>3. PICK y : y = [tx[t] EXCEPT !.locks = @ \cup {Share(l)}, !.pc = "entitled"]  OBVIOUS
<1>4. Rollback(t) \/ Becomes(t, y)  BY <1>2, <1>3 DEF ReadLink
<1>5. y.pc = "entitled" /\ y.writes = tx[t].writes  BY <1>1, <1>3 DEF TxType
<1>6. y.pc \in PlainSteps  BY <1>5 DEF PlainSteps, Step
<1> QED  BY <1>1, <1>4, <1>5, <1>6, ReadLone, RollbackLone

LEMMA CheckEntitledLone ==
  ASSUME Sound, NEW t \in Request, Lone(tx[t], View(t)), CheckEntitled(t)
  PROVE  LoneStep(t)
<1> DEFINE l == tx[t].do.link  c == db[Share(l)].conv
<1>1. tx[t].pc = "entitled" /\ Constraints(View(t))  BY DEF CheckEntitled, At, Lone
<1>2. l \in Link /\ tx[t].do.by \in User /\ db[Share(l)].active /\ tx[t].writes = NoRows
  <2>1. tx[t].do \in Command /\ tx[t].do.op = "join"  BY <1>1, LoneFields DEF OpOfStep
  <2>2. db[Share(l)].active  BY <1>1, LoneFields DEF StillSo
  <2>3. tx[t].writes = NoRows  BY <1>1, LoneFields DEF WrittenBy, Returned
  <2> QED  BY <2>1, <2>2, <2>3, CommandFields
<1>3. c \in Conversation
  <2>1. db[Share(l)] \in ShareRow  BY <1>2 DEF Sound, TablesOK, IsTables
  <2> QED  BY <1>2, <2>1, LinkFields
<1>4. /\ View(t)[Share(l)] = db[Share(l)] /\ View(t)[Conv(c)] = db[Conv(c)]
      /\ View(t)[Member(tx[t].do.by)] = db[Member(tx[t].do.by)]
  BY <1>2, <1>3, SightUnwritten, RowsOfTables
<1>5. CASE ~(db[Conv(c)].scope = "private" /\ ~Active(db, tx[t].do.by)) /\ Goto(t, "sit")
  <2>1. PICK y : y = [tx[t] EXCEPT !.pc = "sit"]  OBVIOUS
  <2>2. y.pc = "sit" /\ y.do = tx[t].do /\ y.writes = tx[t].writes  BY <2>1, GoneOn DEF Step
  <2>3. View(t)[Conv(View(t)[Share(y.do.link)].conv)].scope = "private" => Active(View(t), y.do.by)
    BY <1>4, <1>5, <2>2 DEF Active
  <2>4. Lone(y, View(t))  BY <1>1, <2>2, <2>3 DEF Lone
  <2> QED  BY <1>5, <2>1, <2>2, <2>4 DEF Goto, LoneStep, View
<1>6. Rollback(t) \/ (~(db[Conv(c)].scope = "private" /\ ~Active(db, tx[t].do.by)) /\ Goto(t, "sit"))
  BY DEF CheckEntitled
<1> QED  BY <1>5, <1>6, RollbackLone

LEMMA SitLone ==
  ASSUME Sound, NEW t \in Request, Lone(tx[t], View(t)), Sit(t)
  PROVE  LoneStep(t)
<1> DEFINE l == tx[t].do.link  u == tx[t].do.by
<1>1. tx[t].pc = "sit" /\ Constraints(View(t)) /\ "done" \in Step  BY DEF Sit, At, Lone, Step
<1>2. l \in Link /\ u \in User /\ db[Share(l)].active /\ tx[t].writes = NoRows
  <2>1. tx[t].do \in Command /\ tx[t].do.op = "join"  BY <1>1, LoneFields DEF OpOfStep
  <2>2. db[Share(l)].active  BY <1>1, LoneFields DEF StillSo
  <2>3. tx[t].writes = NoRows  BY <1>1, LoneFields DEF WrittenBy, Returned
  <2> QED  BY <2>1, <2>2, <2>3, CommandFields
<1>3. PICK c \in Conversation : c = db[Share(l)].conv
  <2>1. db[Share(l)] \in ShareRow  BY <1>2 DEF Sound, TablesOK, IsTables
  <2>2. db[Share(l)].conv \in Conversation  BY <1>2, <2>1, LinkFields
  <2> QED  BY <2>2
<1>4. Mutable(db, c)
  <2>1. c # None  BY NoneAssumption
  <2> QED  BY <1>2, <1>3, <2>1 DEF Sound, TablesOK, References
<1>5. /\ View(t)[Share(l)] = db[Share(l)] /\ \A p \in Couple : View(t)[Pair(p)] = db[Pair(p)]
  BY <1>2, SightUnwritten, RowsOfTables
<1>6. ~IsDM(View(t), c)  BY <1>4, <1>5, SameParts DEF Mutable
<1>7. View(t)[Conv(c)].scope = "private" => Active(View(t), u)  BY <1>1, <1>3, <1>5 DEF Lone
<1>8. Becomes(t, [TakeSeat(t, c, u) EXCEPT !.pc = "done"])  BY <1>3 DEF Sit
<1>9. CASE View(t)[Seat(c, u)]
  <2>1. Goto(t, "done")  BY <1>8, <1>9 DEF TakeSeat, Goto
  <2> QED  BY <1>1, <2>1, GotoLone DEF PlainSteps, Step
<1>10. CASE ~View(t)[Seat(c, u)]
  <2>1. PICK r, b : r = Seat(c, u) /\ b = TRUE  OBVIOUS
  <2>2. PICK w : w = Only(r, b)  OBVIOUS
  <2>3. DOMAIN w = {r} /\ w[r] = b  BY <2>2, OnlyOne
  <2>4. w \in Written /\ {Seat(c, u)} \subseteq Row  BY <1>2, <2>1, <2>2, SeatOnly
  <2>5. PICK T : T = {Seat(c, u)}  OBVIOUS
  <2>6. PICK y : y = Moved(Wrote(t, w, T), "done")  OBVIOUS
  <2>7. Becomes(t, y)  BY <1>8, <1>10, <2>1, <2>2, <2>5, <2>6 DEF Moved, TakeSeat
  <2>8. WroteTo(tx[t], y, w, T) /\ y.pc = "done"  BY <1>1, <2>4, <2>5, <2>6, WroteMoved
  <2>9. PICK z : z = Overlay(y.writes, db)  OBVIOUS
  <2>10. Besides(View(t), z, DOMAIN w) /\ \A x \in DOMAIN w : z[x] = w[x]
    BY <2>8, <2>9, SightWritten DEF WroteTo
  <2>11. Besides(View(t), z, {Seat(c, u)}) /\ z[Seat(c, u)] = TRUE  BY <2>1, <2>3, <2>10
  <2>12. Constraints(z)  BY <1>1, <1>2, <1>6, <1>7, <2>11, SeatTaken
  <2>13. Lone(y, z)  BY <2>8, <2>12, PlainLone DEF PlainSteps, Step
  <2> QED  BY <2>7, <2>9, <2>13 DEF LoneStep
<1> QED  BY <1>9, <1>10

LEMMA InsertInviteLone ==
  ASSUME Sound, NEW t \in Request, Lone(tx[t], View(t)), InsertInvite(t)
  PROVE  LoneStep(t)
<1>1. tx[t].pc = "insert invite" /\ Constraints(View(t))  BY DEF InsertInvite, At, Lone
<1>2. tx[t].do.to \in User \cup {Anyone}
  <2>1. tx[t].do \in Command /\ tx[t].do.op = "createInvite"  BY <1>1, LoneFields DEF OpOfStep
  <2> QED  BY <2>1, CommandFields
<1>3. PICK i \in Invite :
        Becomes(t, [Wrote(t, Only(Asked(i), [to |-> tx[t].do.to, accepted |-> FALSE]), {Asked(i)})
                    EXCEPT !.pc = "done"])
  BY DEF InsertInvite
<1>4. PICK b \in AskedRow : b = [to |-> tx[t].do.to, accepted |-> FALSE]  BY <1>2 DEF AskedRow
<1>5. PICK w : w = Only(Asked(i), b)  OBVIOUS
<1>6. w \in Written /\ DOMAIN w = {Asked(i)} /\ Asked(i) \in Row  BY <1>5, AskedOnly
<1>7. PICK T : T = {Asked(i)}  OBVIOUS
<1>8. Becomes(t, Moved(Wrote(t, w, T), "done"))  BY <1>3, <1>4, <1>5, <1>7 DEF Moved
<1>9. "done" \in PlainSteps /\ T \subseteq {Asked(i)} /\ \E k : Asked(i) = Asked(k)
  BY <1>7 DEF PlainSteps, Step
<1> QED  BY <1>1, <1>6, <1>8, <1>9, OtherLone

LEMMA ReadInviteLone ==
  ASSUME Sound, NEW t \in Request, Lone(tx[t], View(t)), ReadInvite(t)
  PROVE  LoneStep(t)
<1>1. Constraints(View(t)) /\ tx[t] \in TxType  BY TxFields DEF ReadInvite, At, Lone
<1>2. PICK i : i = tx[t].do.invite  OBVIOUS
<1>3. PICK y : y = [tx[t] EXCEPT !.locks = @ \cup {Asked(i)}, !.pc = "membership"]  OBVIOUS
<1>4. Rollback(t) \/ Becomes(t, y)  BY <1>2, <1>3 DEF ReadInvite
<1>5. y.pc = "membership" /\ y.writes = tx[t].writes  BY <1>1, <1>3 DEF TxType
<1>6. y.pc \in PlainSteps  BY <1>5 DEF PlainSteps, Step
<1> QED  BY <1>1, <1>4, <1>5, <1>6, ReadLone, RollbackLone

\* The row of a member is written.
MemberSteps == {"accept", "done", "list rooms"}
RoomsNext(x, u, b, pc) == IF pc = "list rooms" THEN x.do.user = u ELSE b.status = "active"

LEMMA MemberLone ==
  ASSUME Sound, NEW t \in Request, Constraints(View(t)),
         NEW u \in User, NEW w \in Written, DOMAIN w = {Member(u)}, NEW T, T \subseteq Row,
         NEW pc \in MemberSteps, Becomes(t, Moved(Wrote(t, w, T), pc)),
         RoomsNext(tx[t], u, w[Member(u)], pc),
         \/ w[Member(u)].role = "owner" /\ w[Member(u)].status = "active"
         \/ \E o \in Owners(View(t)) : o # u
  PROVE  LoneStep(t)
<1>1. pc \in Step  BY DEF Step, MemberSteps
<1>2. PICK y : y = Moved(Wrote(t, w, T), pc)  OBVIOUS
<1>3. WroteTo(tx[t], y, w, T) /\ y.pc = pc  BY <1>1, <1>2, WroteMoved
<1>4. PICK z : z = Overlay(y.writes, db)  OBVIOUS
<1>5. Besides(View(t), z, DOMAIN w) /\ \A x \in DOMAIN w : z[x] = w[x]
  BY <1>3, <1>4, SightWritten DEF WroteTo
<1>6. Besides(View(t), z, {Member(u)}) /\ z[Member(u)] = w[Member(u)]  BY <1>5
<1>7. /\ RoomsKept(z) /\ \A c \in Conversation, x \in User \ {u} : MaySit(z, c, x)
      /\ z[Member(u)].status = "active" => Constraints(z)
  BY <1>6, MemberTurned
<1>8. Lone(y, z)
  <2>1. CASE pc = "list rooms"
    <3>1. y.pc = "list rooms" /\ y.do.user = u  BY <1>3, <2>1 DEF WroteTo, RoomsNext
    <3> QED  BY <1>7, <3>1 DEF Lone
  <2>2. CASE pc # "list rooms"
    <3>1. Constraints(z)  BY <1>6, <1>7, <2>2 DEF RoomsNext
    <3>2. y.pc \in PlainSteps  BY <1>3, <2>2 DEF PlainSteps, Step, MemberSteps
    <3> QED  BY <3>1, <3>2, PlainLone
  <2> QED  BY <2>1, <2>2
<1> QED  BY <1>2, <1>4, <1>8 DEF LoneStep

\* If a user is not an active member, another one is the owner.
LEMMA OtherOwner ==
  ASSUME NEW v, HasOwner(v), NEW u, v[Member(u)].status # "active"
  PROVE  \E o \in Owners(v) : o # u
BY DEF HasOwner, Owners, Active

LEMMA ReadMembershipLone ==
  ASSUME Sound, NEW t \in Request, Lone(tx[t], View(t)), ReadMembership(t)
  PROVE  LoneStep(t)
<1> DEFINE u == tx[t].do.by  m == Member(u)  row == View(t)[m]
<1>1. tx[t].pc = "membership" /\ Constraints(View(t)) /\ tx[t] \in TxType
  BY TxFields DEF ReadMembership, At, Lone
<1>2. u \in User
  <2>1. tx[t].do \in Command  BY <1>1, LoneFields
  <2> QED  BY <2>1, CommandFields
<1>3. row \in MemberRow  BY <1>2, SightOf DEF IsTables
<1>4. CASE Goto(t, "create membership")  BY <1>1, <1>4, GotoLone DEF PlainSteps, Step
<1>5. CASE Becomes(t, [tx[t] EXCEPT !.locks = @ \cup {m}, !.pc = "accept"])
  <2>1. PICK y : y = [tx[t] EXCEPT !.locks = @ \cup {m}, !.pc = "accept"]  OBVIOUS
  <2>2. y.pc = "accept" /\ y.writes = tx[t].writes  BY <1>1, <2>1 DEF TxType
  <2>3. y.pc \in PlainSteps  BY <2>2 DEF PlainSteps, Step
  <2> QED  BY <1>1, <1>5, <2>1, <2>2, <2>3, ReadLone
<1>6. ASSUME row.status # "none", row.status # "active",
             Becomes(t, [Wrote(t, Only(m, [row EXCEPT !.status = "active"]), {m}) EXCEPT !.pc = "accept"])
      PROVE  LoneStep(t)
  <2>1. PICK b \in MemberRow : b = [row EXCEPT !.status = "active"] /\ b.status = "active"
    <3> HIDE DEF row
    <3>1. row \in [role : Role, status : Status]
      <4>1. [role |-> "none", status |-> "none"].status = "none"  OBVIOUS
      <4> QED  BY <1>3, <1>6, <4>1 DEF MemberRow
    <3>2. "active" \in Status  BY DEF Status
    <3>3. /\ [row EXCEPT !.status = "active"] \in [role : Role, status : Status]
          /\ [row EXCEPT !.status = "active"].status = "active"
      BY <3>1, <3>2
    <3> QED  BY <3>3 DEF MemberRow
  <2>2. PICK w : w = Only(m, b)  OBVIOUS
  <2>3. w \in Written /\ DOMAIN w = {m} /\ {m} \subseteq Row  BY <1>2, <2>2, MemberOnly
  <2>4. w[m] = b  BY <2>2, OnlyOne
  <2>5. PICK T : T = {m}  OBVIOUS
  <2>6. Becomes(t, Moved(Wrote(t, w, T), "accept"))  BY <1>6, <2>1, <2>2, <2>5 DEF Moved
  <2>7. "accept" \in MemberSteps /\ RoomsNext(tx[t], u, w[m], "accept")
    BY <2>1, <2>4 DEF MemberSteps, RoomsNext
  <2>8. \E o \in Owners(View(t)) : o # u  BY <1>1, <1>6, OtherOwner DEF Constraints
  <2> QED  BY <1>1, <1>2, <2>3, <2>5, <2>6, <2>7, <2>8, MemberLone
<1> QED  BY <1>4, <1>5, <1>6 DEF ReadMembership

LEMMA CreateMembershipLone ==
  ASSUME Sound, NEW t \in Request, Lone(tx[t], View(t)), CreateMembership(t)
  PROVE  LoneStep(t)
<1> DEFINE u == tx[t].do.by  m == Member(u)
<1>1. tx[t].pc = "create membership" /\ Constraints(View(t))  BY DEF CreateMembership, At, Lone
<1>2. u \in User
  <2>1. tx[t].do \in Command  BY <1>1, LoneFields
  <2> QED  BY <2>1, CommandFields
<1>3. ASSUME View(t)[m].status = "none",
             Becomes(t, [Wrote(t, Only(m, [role |-> "member", status |-> "active"]), {m}) EXCEPT !.pc = "accept"])
      PROVE  LoneStep(t)
  <2>1. PICK b \in MemberRow : b = [role |-> "member", status |-> "active"]
    BY DEF MemberRow, Role, Status
  <2>2. PICK w : w = Only(m, b)  OBVIOUS
  <2>3. w \in Written /\ DOMAIN w = {m} /\ {m} \subseteq Row  BY <1>2, <2>2, MemberOnly
  <2>4. w[m] = b /\ b.status = "active"  BY <2>1, <2>2, OnlyOne
  <2>5. PICK T : T = {m}  OBVIOUS
  <2>6. Becomes(t, Moved(Wrote(t, w, T), "accept"))  BY <1>3, <2>1, <2>2, <2>5 DEF Moved
  <2>7. "accept" \in MemberSteps /\ RoomsNext(tx[t], u, w[m], "accept")
    BY <2>4 DEF MemberSteps, RoomsNext
  <2>8. \E o \in Owners(View(t)) : o # u
    <3>1. PICK v : v = View(t)  OBVIOUS
    <3>2. HasOwner(v) /\ v[Member(u)].status # "active"  BY <1>1, <1>3, <3>1 DEF Constraints
    <3>3. \E o \in Owners(v) : o # u  BY <3>2, OtherOwner
    <3> QED  BY <3>1, <3>3
  <2> QED  BY <1>1, <1>2, <2>3, <2>5, <2>6, <2>7, <2>8, MemberLone
<1> QED  BY <1>3, RollbackLone DEF CreateMembership

LEMMA MarkAcceptedLone ==
  ASSUME Sound, NEW t \in Request, Lone(tx[t], View(t)), MarkAccepted(t)
  PROVE  LoneStep(t)
<1>1. tx[t].pc = "accept" /\ Constraints(View(t))  BY DEF MarkAccepted, At, Lone
<1>2. PICK i \in Invite : i = tx[t].do.invite
  <2>1. tx[t].do \in Command /\ tx[t].do.op = "acceptInvite"  BY <1>1, LoneFields DEF OpOfStep
  <2>2. tx[t].do.invite \in Invite  BY <2>1, CommandFields
  <2> QED  BY <2>2
<1>3. CASE Goto(t, "done")  BY <1>1, <1>3, GotoLone DEF PlainSteps, Step
<1>4. ASSUME Becomes(t, [Wrote(t, Only(Asked(i), [View(t)[Asked(i)] EXCEPT !.accepted = TRUE]), {})
                         EXCEPT !.pc = "done"])
      PROVE  LoneStep(t)
  <2>1. PICK b \in AskedRow : b = [View(t)[Asked(i)] EXCEPT !.accepted = TRUE]
    <3>1. PICK x : x = View(t)[Asked(i)]  OBVIOUS
    <3>2. Asked(i) \notin DOMAIN tx[t].writes
      <4>1. WrittenBy(tx[t])  BY <1>1, LoneFields
      <4> QED  BY <1>1, <4>1, RowKeys DEF WrittenBy
    <3>3. db[Asked(i)].to # None  BY <1>1, <1>2, LoneFields DEF StillSo
    <3>4. x = db[Asked(i)] /\ x \in AskedRow
      BY <3>1, <3>2, SightOf, RowsOfTables DEF Sound, TablesOK, IsTables
    <3>5. x \in [to : User \cup {Anyone}, accepted : BOOLEAN]
      <4>1. [to |-> None, accepted |-> FALSE].to = None  OBVIOUS
      <4> QED  BY <3>3, <3>4, <4>1 DEF AskedRow
    <3>6. [x EXCEPT !.accepted = TRUE] \in [to : User \cup {Anyone}, accepted : BOOLEAN]  BY <3>5
    <3> QED  BY <3>1, <3>6 DEF AskedRow
  <2>2. PICK w : w = Only(Asked(i), b)  OBVIOUS
  <2>3. w \in Written /\ DOMAIN w = {Asked(i)} /\ Asked(i) \in Row  BY <2>2, AskedOnly
  <2>4. PICK T : T = {}  OBVIOUS
  <2>5. Becomes(t, Moved(Wrote(t, w, T), "done"))  BY <1>4, <2>1, <2>2, <2>4 DEF Moved
  <2>6. "done" \in PlainSteps /\ T \subseteq {Asked(i)} /\ \E k : Asked(i) = Asked(k)
    BY <2>4 DEF PlainSteps, Step
  <2> QED  BY <1>1, <2>3, <2>5, <2>6, OtherLone
<1> QED  BY <1>2, <1>3, <1>4 DEF MarkAccepted

LEMMA LockMemberLone ==
  ASSUME Sound, NEW t \in Request, Lone(tx[t], View(t)), LockMember(t)
  PROVE  LoneStep(t)
<1>1. Constraints(View(t)) /\ tx[t] \in TxType  BY TxFields DEF LockMember, At, Lone
<1>2. PICK m, row : m = Member(tx[t].do.user) /\ row = View(t)[m]  OBVIOUS
<1>3. PICK y : y = [tx[t] EXCEPT !.locks = @ \cup {m}, !.seen = row, !.pc = "update"]  OBVIOUS
<1>4. Rollback(t) \/ Becomes(t, y)  BY <1>2, <1>3 DEF LockMember
<1>5. y.pc = "update" /\ y.writes = tx[t].writes  BY <1>1, <1>3 DEF TxType
<1>6. y.pc \in PlainSteps  BY <1>5 DEF PlainSteps, Step
<1> QED  BY <1>1, <1>4, <1>5, <1>6, ReadLone, RollbackLone

\* Whoever was not an owner, or stays an active one, takes none away, and
\* otherwise two are counted.
LEMMA OwnerLeft ==
  ASSUME NEW v, HasOwner(v), NEW u, NEW do, NEW seen, seen = v[Member(u)], NEW b, b = Patched(do, seen),
         GivesUpOwner(do, seen) => ~(Cardinality(Owners(v)) <= 1)
  PROVE  \/ b.role = "owner" /\ b.status = "active"
         \/ \E o \in Owners(v) : o # u
<1>1. CASE GivesUpOwner(do, seen)
  <2>1. \E a, c \in Owners(v) : a # c  BY <1>1, TwoOf
  <2> QED  BY <2>1
<1>2. CASE seen.role # "owner"
  <2>1. u \notin Owners(v)  BY <1>2 DEF Owners
  <2> QED  BY <2>1 DEF HasOwner
<1>3. CASE Patched(do, seen) = [role |-> "owner", status |-> "active"]  BY <1>3
<1> QED  BY <1>1, <1>2, <1>3 DEF GivesUpOwner

LEMMA UpdateMemberLone ==
  ASSUME Sound, NEW t \in Request, Lone(tx[t], View(t)), UpdateMember(t)
  PROVE  LoneStep(t)
<1> DEFINE u == tx[t].do.user  m == Member(u)  next == Patched(tx[t].do, tx[t].seen)
           pc == IF next.status = "active" THEN "done" ELSE "list rooms"
<1>1. tx[t].pc = "update" /\ Constraints(View(t))  BY DEF UpdateMember, At, Lone
<1>2. tx[t].do \in Command /\ tx[t].do.op = "patchMember"  BY <1>1, LoneFields DEF OpOfStep
<1>3. /\ u \in User /\ tx[t].do.role \in Role \cup {"same"} /\ tx[t].do.status \in Status \cup {"same"}
  BY <1>2, CommandFields
<1>4. tx[t].seen = db[m] /\ tx[t].seen.status # "none"  BY <1>1, LoneFields DEF StillSo
<1>5. tx[t].writes = NoRows  BY <1>1, LoneFields DEF WrittenBy, Returned
<1>6. tx[t].seen = View(t)[m]  BY <1>3, <1>4, <1>5, SightUnwritten, RowsOfTables
<1>7. PICK b \in MemberRow : b = next
  <2>1. PICK seen : seen = tx[t].seen  OBVIOUS
  <2>2. seen \in [role : Role, status : Status]
    <3>1. [role |-> "none", status |-> "none"].status = "none"  OBVIOUS
    <3>2. db[m] \in MemberRow  BY <1>3 DEF Sound, TablesOK, IsTables
    <3> QED  BY <1>4, <2>1, <3>1, <3>2 DEF MemberRow
  <2>3. next \in [role : Role, status : Status]  BY <1>3, <2>1, <2>2 DEF Patched
  <2> QED  BY <2>3 DEF MemberRow
<1>8. PICK k : k = pc  OBVIOUS
<1>9. ASSUME ~(GivesUpOwner(tx[t].do, tx[t].seen) /\ Cardinality(Owners(View(t))) <= 1),
             Becomes(t, [Wrote(t, Only(m, next), {m}) EXCEPT !.pc = k])
      PROVE  LoneStep(t)
  <2>1. PICK w : w = Only(m, b)  OBVIOUS
  <2>2. w \in Written /\ DOMAIN w = {m} /\ {m} \subseteq Row  BY <1>3, <2>1, MemberOnly
  <2>3. w[m] = b  BY <2>1, OnlyOne
  <2>4. PICK T : T = {m}  OBVIOUS
  <2>5. Becomes(t, Moved(Wrote(t, w, T), k))  BY <1>7, <1>9, <2>1, <2>4 DEF Moved
  <2>6. k \in MemberSteps /\ RoomsNext(tx[t], u, w[m], k)
    BY <1>7, <1>8, <2>3 DEF MemberSteps, RoomsNext
  <2>7. \/ b.role = "owner" /\ b.status = "active"
        \/ \E o \in Owners(View(t)) : o # u
    <3>1. HasOwner(View(t))  BY <1>1 DEF Constraints
    <3>2. PICK seen, do : seen = tx[t].seen /\ do = tx[t].do  OBVIOUS
    <3>3. b = Patched(do, seen) /\ (GivesUpOwner(do, seen) => ~(Cardinality(Owners(View(t))) <= 1))
      BY <1>7, <1>9, <3>2
    <3> QED  BY <1>6, <3>1, <3>2, <3>3, OwnerLeft
  <2> QED  BY <1>1, <1>3, <2>2, <2>3, <2>4, <2>5, <2>6, <2>7, MemberLone
<1>10. \/ Rollback(t)
       \/ /\ ~(GivesUpOwner(tx[t].do, tx[t].seen) /\ Cardinality(Owners(View(t))) <= 1)
          /\ Becomes(t, [Wrote(t, Only(m, next), {m}) EXCEPT !.pc = pc])
  BY DEF UpdateMember
<1> HIDE DEF pc
<1> QED  BY <1>8, <1>9, <1>10, RollbackLone

LEMMA ListRoomsLone ==
  ASSUME Sound, NEW t \in Request, Lone(tx[t], View(t)), ListRooms(t)
  PROVE  LoneStep(t)
<1> DEFINE u == tx[t].do.user
           rooms == {c \in Conversation : View(t)[Conv(c)].scope = "private" /\ View(t)[Seat(c, u)]}
<1>1. tx[t].pc = "list rooms" /\ tx[t] \in TxType  BY TxFields DEF ListRooms, At
<1>2. RoomsKept(View(t)) /\ \A c \in Conversation, x \in User \ {u} : MaySit(View(t), c, x)
  BY <1>1 DEF Lone
<1>3. ASSUME ~\E c \in rooms : Cardinality(People(View(t), c)) <= 1,
             Becomes(t, [tx[t] EXCEPT !.todo = rooms, !.pc = "leave rooms"])
      PROVE  LoneStep(t)
  <2>1. PICK y : y = [tx[t] EXCEPT !.todo = rooms, !.pc = "leave rooms"]  OBVIOUS
  <2>2. y.pc = "leave rooms" /\ y.do = tx[t].do /\ y.todo = rooms /\ y.writes = tx[t].writes
    BY <1>1, <2>1 DEF TxType
  <2>3. ASSUME NEW c \in rooms PROVE \E x \in People(View(t), c) : x # u
    <3>1. \E a, b \in People(View(t), c) : a # b  BY <1>3, TwoOf
    <3> QED  BY <3>1
  <2>4. \A c \in Conversation : c \notin rooms => MaySit(View(t), c, u)  BY DEF MaySit
  <2> HIDE DEF rooms
  <2>5. Lone(y, View(t))  BY <1>2, <2>2, <2>3, <2>4 DEF Lone
  <2> QED  BY <1>3, <2>1, <2>2, <2>5 DEF LoneStep, View
<1> QED  BY <1>3, RollbackLone DEF ListRooms

LEMMA LeaveRoomLone ==
  ASSUME Sound, NEW t \in Request, Lone(tx[t], View(t)), LeaveRoom(t)
  PROVE  LoneStep(t)
<1> DEFINE u == tx[t].do.user  v == View(t)
<1>1. tx[t].pc = "leave rooms" /\ tx[t] \in TxType  BY TxFields DEF LeaveRoom, At
<1>2. /\ RoomsKept(v) /\ \A c \in Conversation, x \in User \ {u} : MaySit(v, c, x)
      /\ \A c \in Conversation :
           IF c \in tx[t].todo THEN \E x \in People(v, c) : x # u ELSE MaySit(v, c, u)
  BY <1>1 DEF Lone
<1>3. u \in User /\ \A c \in tx[t].todo : c \in Conversation /\ db[Conv(c)].scope = "private"
  <2>1. tx[t].do \in Command /\ tx[t].do.op = "patchMember"  BY <1>1, LoneFields DEF OpOfStep
  <2>2. StillSo(tx[t], db)  BY <1>1, LoneFields
  <2>3. \A c \in tx[t].todo : c \in Conversation /\ db[Conv(c)].scope = "private"
    BY <1>1, <2>2 DEF StillSo
  <2> QED  BY <2>1, <2>3, CommandFields
<1>4. \A c \in Conversation : v[Conv(c)] = db[Conv(c)]
  <2>1. WrittenBy(tx[t])  BY <1>1, LoneFields
  <2>2. \A r \in DOMAIN tx[t].writes : r = Member(u) \/ \E c \in Conversation : r = Seat(c, u)
    BY <1>1, <2>1 DEF WrittenBy
  <2>3. \A c \in Conversation : Conv(c) \notin DOMAIN tx[t].writes  BY <2>2, RowKeys
  <2> QED  BY <2>3, SightOf, RowsOfTables
<1> HIDE DEF v
<1>5. CASE tx[t].todo = {} /\ Goto(t, "done")
  <2>1. Constraints(v)  BY <1>2, <1>5 DEF Constraints, RoomsKept
  <2> QED  BY <1>5, <2>1, GotoLone DEF PlainSteps, Step, v
<1>6. ASSUME NEW c \in tx[t].todo,
             Becomes(t, [(IF v[Seat(c, u)] THEN LeaveSeat(t, c, u) ELSE tx[t]) EXCEPT !.todo = @ \ {c}])
      PROVE  LoneStep(t)
  <2>1. c \in Conversation /\ v[Conv(c)].scope = "private" /\ \E x \in People(v, c) : x # u
    BY <1>2, <1>3, <1>4, <1>6
  <2>2. CASE ~v[Seat(c, u)]
    <3>1. PICK y : y = [tx[t] EXCEPT !.todo = @ \ {c}]  OBVIOUS
    <3>2. y.pc = "leave rooms" /\ y.do = tx[t].do /\ y.todo = tx[t].todo \ {c} /\ y.writes = tx[t].writes
      BY <1>1, <3>1 DEF TxType
    <3>3. MaySit(v, c, u)  BY <2>2 DEF MaySit
    <3>4. Lone(y, v)  BY <1>2, <3>2, <3>3 DEF Lone
    <3> QED  BY <1>6, <2>2, <3>1, <3>2, <3>4 DEF LoneStep, View, v
  <2>3. CASE v[Seat(c, u)]
    <3>1. PICK r, b : r = Seat(c, u) /\ b = FALSE  OBVIOUS
    <3>2. PICK w : w = Only(r, b)  OBVIOUS
    <3>3. DOMAIN w = {r} /\ w[r] = b  BY <3>2, OnlyOne
    <3>4. w \in Written /\ {Seat(c, u)} \in SUBSET Row  BY <1>3, <2>1, <3>1, <3>2, SeatOnly
    <3>5. PICK x : x = Wrote(t, w, {Seat(c, u)})  OBVIOUS
    <3>6. /\ x \in TxType /\ x.pc = tx[t].pc /\ x.do = tx[t].do /\ x.todo = tx[t].todo
          /\ x.writes = Overlay(w, tx[t].writes)
      BY <3>4, <3>5, WroteFields
    <3>7. PICK y : y = [x EXCEPT !.todo = @ \ {c}]  OBVIOUS
    <3>8. /\ y.pc = "leave rooms" /\ y.do = tx[t].do /\ y.todo = tx[t].todo \ {c}
          /\ y.writes = Overlay(w, tx[t].writes)
      BY <1>1, <3>6, <3>7 DEF TxType
    <3>9. Becomes(t, y)  BY <1>6, <2>3, <3>1, <3>2, <3>5, <3>7 DEF LeaveSeat
    <3>10. PICK z : z = Overlay(y.writes, db)  OBVIOUS
    <3>11. Besides(v, z, DOMAIN w) /\ \A s \in DOMAIN w : z[s] = w[s]
      <4>1. y.writes = Overlay(w, tx[t].writes)  BY <3>8
      <4> QED  BY <3>10, <4>1, SightWritten DEF v
    <3>12. Besides(v, z, {Seat(c, u)}) /\ ~z[Seat(c, u)]  BY <3>1, <3>3, <3>11
    <3>13. ~IsDM(v, c)  BY <1>2, <2>1 DEF RoomsKept, PairIntact
    <3>14. PICK o \in People(v, c) : o # u  BY <2>1
    <3>15. /\ RoomsKept(z) /\ MaySit(z, c, u)
           /\ \A d \in Conversation, s \in User : MaySit(v, d, s) => MaySit(z, d, s)
           /\ \A d \in Conversation : d # c => People(z, d) = People(v, d)
      BY <1>2, <1>3, <2>1, <3>12, <3>13, <3>14, SeatLeft
    <3>16. \A d \in Conversation, s \in User \ {u} : MaySit(z, d, s)  BY <1>2, <3>15
    <3>17. \A d \in Conversation :
             IF d \in y.todo THEN \E s \in People(z, d) : s # u ELSE MaySit(z, d, u)
      BY <1>2, <1>3, <3>8, <3>15
    <3>18. Lone(y, z)  BY <3>8, <3>15, <3>16, <3>17 DEF Lone
    <3> QED  BY <3>9, <3>10, <3>18 DEF LoneStep
  <2> QED  BY <2>2, <2>3
<1> QED  BY <1>5, <1>6 DEF LeaveRoom, v

LEMMA RunCheckLone ==
  ASSUME Sound, NEW t \in Request, Lone(tx[t], View(t)), RunCheck(t)
  PROVE  LoneStep(t)
<1>1. Constraints(View(t)) /\ tx[t] \in TxType  BY TxFields DEF RunCheck, Lone
<1>2. ASSUME NEW k, Becomes(t, [tx[t] EXCEPT !.pc = "check", !.due = @ \ {k}])
      PROVE  LoneStep(t)
  <2>1. PICK y : y = [tx[t] EXCEPT !.pc = "check", !.due = @ \ {k}]  OBVIOUS
  <2>2. y.pc = "check" /\ y.writes = tx[t].writes  BY <1>1, <2>1 DEF TxType
  <2>3. y.pc \in PlainSteps  BY <2>2 DEF PlainSteps, Step
  <2> QED  BY <1>1, <1>2, <2>1, <2>2, <2>3, ReadLone
<1> QED  BY <1>2, RollbackLone DEF RunCheck

-----------------------------------------------------------------------------
LEMMA StepsLone ==
  ASSUME Sound, NEW t \in Request, Lone(tx[t], View(t)),
         ConversationStep(t) \/ MembershipStep(t) \/ RunCheck(t) \/ Abort(t)
  PROVE  LoneStep(t)
<1>1. CASE ConversationStep(t)
  BY <1>1, LookUpLone, InsertConversationLone, CheckMembersLone, AddOneLone, CountPeopleLone, DeleteLone,
     FindLinkLone, LockLinkLone, NewLinkLone, ReadLinkLone, CheckEntitledLone, SitLone
  DEF ConversationStep
<1>2. CASE MembershipStep(t)
  BY <1>2, InsertInviteLone, ReadInviteLone, ReadMembershipLone, CreateMembershipLone, MarkAcceptedLone,
     LockMemberLone, UpdateMemberLone, ListRoomsLone, LeaveRoomLone
  DEF MembershipStep
<1>3. CASE RunCheck(t)  BY <1>3, RunCheckLone
<1>4. CASE Abort(t)  BY <1>4, RollbackLone DEF Abort
<1> QED  BY <1>1, <1>2, <1>3, <1>4

\* Only a transaction that has begun makes a step.
LEMMA StepsBegun ==
  ASSUME NEW t \in Request,
         ConversationStep(t) \/ MembershipStep(t) \/ RunCheck(t) \/ Commit(t) \/ Abort(t)
  PROVE  tx[t] # Idle
<1>1. CASE ConversationStep(t)
  <2>1. tx[t].pc # "idle"
    BY <1>1 DEF ConversationStep, LookUp, InsertConversation, CheckMembers, AddOne, CountPeople, Delete,
       FindLink, LockLink, NewLink, ReadLink, CheckEntitled, Sit, At
  <2> QED  BY <2>1, IdleFields
<1>2. CASE MembershipStep(t)
  <2>1. tx[t].pc # "idle"
    BY <1>2 DEF MembershipStep, InsertInvite, ReadInvite, ReadMembership, CreateMembership, MarkAccepted,
       LockMember, UpdateMember, ListRooms, LeaveRoom, At
  <2> QED  BY <2>1, IdleFields
<1>3. CASE RunCheck(t) \/ Commit(t)
  <2>1. tx[t].pc # "idle"  BY <1>3 DEF RunCheck, Commit
  <2> QED  BY <2>1, IdleFields
<1>4. CASE Abort(t)  BY <1>4 DEF Abort
<1> QED  BY <1>1, <1>2, <1>3, <1>4

\* The tables v hold, and of the transactions x only t, if any, is in progress.
OnlyFor(t, x, v) ==
  /\ Constraints(v)
  /\ \A o \in Request \ {t} : x[o] = Idle
  /\ x[t] # Idle => Lone(x[t], Overlay(x[t].writes, v))

LEMMA OnlyOneAlone ==
  ASSUME NEW t \in Request, NEW x, NEW v, OnlyFor(t, x, v)
  PROVE  OneAlone(x, v)
<1>1. \A o \in Request : x[o] # Idle => o = t  BY DEF OnlyFor
<1> QED  BY <1>1 DEF OnlyFor, OneAlone

LEMMA OnlyOf ==
  ASSUME Serial, Here.atOnce = 1, NEW t \in Request,
         tx[t] # Idle \/ \A o \in Request : tx[o] = Idle
  PROVE  OnlyFor(t, tx, db)
BY DEF OnlyFor, OneAlone, Serial

LEMMA LoneStays ==
  ASSUME Sound, NEW t \in Request, OnlyFor(t, tx, db), LoneStep(t)
  PROVE  OnlyFor(t, tx', db')
<1>1. PICK y : Becomes(t, y) /\ (y = Idle \/ Lone(y, Overlay(y.writes, db)))  BY DEF LoneStep
<1>2. db' = db /\ tx' = [tx EXCEPT ![t] = y] /\ tx \in [Request -> TxType]  BY <1>1 DEF Becomes, Sound
<1>3. PICK x : x = tx'  OBVIOUS
<1>4. x[t] = y /\ \A o \in Request \ {t} : x[o] = tx[o]  BY <1>2, <1>3
<1>5. OnlyFor(t, x, db)  BY <1>1, <1>4 DEF OnlyFor
<1> QED  BY <1>2, <1>3, <1>5

LEMMA CommitAlone ==
  ASSUME Sound, NEW t \in Request, OnlyFor(t, tx, db), Commit(t)
  PROVE  OnlyFor(t, tx', db')
<1>1. tx[t].pc \in Returned /\ tx[t] # Idle  BY Committing
<1>2. Lone(tx[t], View(t))  BY <1>1 DEF OnlyFor, View
<1>3. Constraints(View(t))  BY <1>1, <1>2 DEF Lone, Returned
<1>4. db' = View(t) /\ tx' = [tx EXCEPT ![t] = Idle] /\ tx \in [Request -> TxType]  BY DEF Commit, Sound
<1>5. PICK x : x = tx'  OBVIOUS
<1>6. x[t] = Idle /\ \A o \in Request \ {t} : x[o] = tx[o]  BY <1>4, <1>5, IdleFields
<1>7. OnlyFor(t, x, View(t))  BY <1>3, <1>6 DEF OnlyFor
<1> QED  BY <1>4, <1>5, <1>7

LEMMA NoneInProgress ==
  ASSUME Serial, Here.atOnce = 1, Cardinality({o \in Request : tx[o] # Idle}) < Here.atOnce
  PROVE  \A o \in Request : tx[o] = Idle
<1>1. SUFFICES ASSUME NEW t \in Request, tx[t] # Idle PROVE FALSE  OBVIOUS
<1>2. \A o \in Request : tx[o] # Idle => o = t  BY <1>1 DEF Serial, OneAlone
<1>3. {o \in Request : tx[o] # Idle} = {t}  BY <1>1, <1>2
<1>4. Cardinality({t}) = 1  BY FS_Singleton
<1>5. Cardinality({t}) < 1  BY <1>3
<1> QED  BY <1>4, <1>5

LEMMA BeginLone ==
  ASSUME Sound, Constraints(db), NEW t \in Request, NEW do, NEW pc \in FirstSteps,
         Begin(t, do, pc), pc = "insert" => do.scope = "wide"
  PROVE  LoneStep(t)
<1>1. PICK y : y = [Idle EXCEPT !.do = do, !.pc = pc]  OBVIOUS
<1>2. y.pc = pc /\ y.do = do /\ y.writes = NoRows  BY <1>1 DEF Idle
<1>3. PICK z : z = Overlay(y.writes, db)  OBVIOUS
<1>4. Constraints(z)
  <2>1. \A r \in Row : z[r] = db[r]  BY <1>2, <1>3, UnwrittenOK DEF Sound
  <2>2. Besides(db, z, {})  BY <2>1 DEF Besides
  <2> QED  BY <2>2, OtherRowsApart
<1>5. y.pc \notin {"add", "delete", "sit"}  BY <1>2 DEF FirstSteps
<1>6. y.pc \notin {"list rooms", "leave rooms"}  BY <1>2 DEF FirstSteps
<1>7. Lone(y, z)  BY <1>2, <1>4, <1>5, <1>6 DEF Lone
<1> QED  BY <1>1, <1>3, <1>7 DEF Begin, LoneStep

LEMMA ArriveLone ==
  ASSUME Sound, Constraints(db), NEW t \in Request, Arrive(t)
  PROVE  LoneStep(t)
<1>1. PICK do : ConversationRequest(t, do) \/ MembershipRequest(t, do)  BY DEF Arrive
<1>2. CASE CreateConversation(t, do)
  <2>1. PICK pc \in FirstSteps : Begin(t, do, pc) /\ (pc = "insert" => do.scope = "wide")
    BY <1>2 DEF CreateConversation, FirstSteps
  <2> QED  BY <2>1, BeginLone
<1>3. CASE ~CreateConversation(t, do)
  <2>1. PICK pc \in FirstSteps : Begin(t, do, pc) /\ pc # "insert"
    BY <1>1, <1>3 DEF ConversationRequest, MembershipRequest, AddParticipants, DeleteParticipant,
       ShareLink, JoinConversation, CreateInvite, AcceptInvite, PatchMember, FirstSteps
  <2> QED  BY <2>1, BeginLone
<1> QED  BY <1>2, <1>3

LEMMA NextSerial == Sound /\ Serial /\ [Next]_<<vars, scene>> => Serial'
<1> SUFFICES ASSUME Sound, Serial, [Next]_<<vars, scene>> PROVE Serial'  OBVIOUS
<1>1. CASE UNCHANGED <<vars, scene>>  BY <1>1 DEF Serial, vars, Here
<1>2. CASE Next /\ Here.atOnce = 1
  <2>1. PICK t \in Request :
          Arrive(t) \/ ConversationStep(t) \/ MembershipStep(t) \/ RunCheck(t) \/ Commit(t) \/ Abort(t)
    BY <1>2 DEF Next
  <2>2. OnlyFor(t, tx', db')
    <3>1. CASE Arrive(t)
      <4>1. \A o \in Request : tx[o] = Idle  BY <1>2, <3>1, NoneInProgress DEF Arrive
      <4>2. OnlyFor(t, tx, db)  BY <1>2, <4>1, OnlyOf
      <4>3. LoneStep(t)  BY <3>1, <4>2, ArriveLone DEF OnlyFor
      <4> QED  BY <4>2, <4>3, LoneStays
    <3>2. CASE ~Arrive(t)
      <4>1. tx[t] # Idle  BY <2>1, <3>2, StepsBegun
      <4>2. OnlyFor(t, tx, db) /\ Lone(tx[t], View(t))  BY <1>2, <4>1, OnlyOf DEF OnlyFor, View
      <4>3. CASE Commit(t)  BY <4>2, <4>3, CommitAlone
      <4>4. CASE ~Commit(t)
        <5>1. LoneStep(t)  BY <2>1, <3>2, <4>2, <4>4, StepsLone
        <5> QED  BY <4>2, <5>1, LoneStays
      <4> QED  BY <4>3, <4>4
    <3> QED  BY <3>1, <3>2
  <2>3. PICK x, v : x = tx' /\ v = db'  OBVIOUS
  <2>4. OneAlone(x, v)  BY <2>2, <2>3, OnlyOneAlone
  <2> QED  BY <2>3, <2>4 DEF Serial
<1>3. CASE Next /\ Here.atOnce # 1
  <2>1. Here' = Here  BY <1>3 DEF Next, Here
  <2> QED  BY <1>3, <2>1 DEF Serial
<1> QED  BY <1>1, <1>2, <1>3

\* A check that the constraints leave nothing to find passes.
LEMMA HeldPasses ==
  ASSUME NEW v, Constraints(v), NEW k \in Check
  PROVE  Passes(v, k)
BY DEF Constraints, Check, Passes

\* When requests come one at a time, no deferred check ever fails: what the
\* handlers check themselves (the members invited are active, another owner and
\* another participant are left, a member that leaves the workspace leaves its
\* private conversations) is all that the triggers of 000001_init.sql demand.
THEOREM SerialRequestsPassChecks == Spec => []NoCheckFails
<1>1. Init => Serial
  <2> SUFFICES ASSUME Init PROVE Serial  OBVIOUS
  <2>1. db = Here.start /\ scene \in DOMAIN Scenes /\ \A t \in Request : tx[t] = Idle  BY DEF Init
  <2>2. Constraints(db)  BY <2>1, ScenesAssumption DEF Here
  <2> QED  BY <2>1, <2>2 DEF Serial, OneAlone
<1>2. Sound /\ Serial /\ [Next]_<<vars, scene>> => Serial'  BY NextSerial
<1>3. Sound /\ Serial => NoCheckFails
  <2> SUFFICES ASSUME Sound, Serial, Here.atOnce = 1, NEW t \in Request, NEW k \in tx[t].due,
                      tx[t].pc \in {"done", "check"}
               PROVE  Passes(View(t), k)
    BY DEF NoCheckFails
  <2>1. tx[t] # Idle  BY IdleFields
  <2>2. Lone(tx[t], View(t))  BY <2>1 DEF Serial, OneAlone, View
  <2>3. Constraints(View(t))  BY <2>2 DEF Lone
  <2>4. k \in Check
    <3>1. tx[t] \in TxType  BY TxFields
    <3> QED  BY <3>1 DEF TxType
  <2> QED  BY <2>3, <2>4, HeldPasses
<1> QED  BY <1>1, <1>2, <1>3, WorkspaceSound, PTL DEF Spec

=============================================================================
