------------------------------ MODULE Database ------------------------------
(***************************************************************************)
(* The tables that the workspace and conversation handlers share, and the  *)
(* transactions they run on them (withTransaction in routes_core.go).      *)
(*                                                                         *)
(* PostgreSQL runs them at READ COMMITTED: a statement sees the rows that  *)
(* are committed when it starts, under the rows its own transaction has    *)
(* written.  A row that is written, or read FOR UPDATE, is locked until    *)
(* the transaction ends, and whoever wants it waits.  The constraint       *)
(* triggers of 000001_init.sql are deferred: they run when the handler has *)
(* returned, one query after the other, and only then does the transaction *)
(* commit.  Nothing makes the last query and the commit one step.  The     *)
(* order of the queries is that of the writes; any order is allowed here.  *)
(*                                                                         *)
(* A transaction may end without effect at any moment: its client goes     *)
(* away, a statement fails, or the database picks it to break a deadlock.  *)
(*                                                                         *)
(* One workspace is modelled; its users are active accounts of people (an  *)
(* agent is a new user that starts as a member).  Texts, times, tokens and *)
(* event payloads are left out.                                            *)
(***************************************************************************)
EXTENDS Naturals, FiniteSets

CONSTANTS
  User, Conversation, Link, Invite,   \* ids, used at most once
  Request,   \* bound: the requests in progress at a time
  None,      \* no row
  Anyone     \* an invite without email and user_id

VARIABLES
  db,        \* the committed rows
  tx,        \* per request: its transaction
  raced      \* history: changes were committed amid the checks of another

vars == <<db, tx, raced>>

-----------------------------------------------------------------------------
(* The tables: a row is named by its table and key.                        *)

Member(u)   == <<"member", u>>
Conv(c)     == <<"conversation", c>>
Seat(c, u)  == <<"participant", c, u>>
Pair(p)     == <<"pair", p>>
Share(l)    == <<"link", l>>
Asked(i)    == <<"invite", i>>

Couple == {p \in SUBSET User : Cardinality(p) = 2}

Row ==
  {Member(u) : u \in User} \cup {Conv(c) : c \in Conversation}
  \cup {Seat(c, u) : c \in Conversation, u \in User} \cup {Pair(p) : p \in Couple}
  \cup {Share(l) : l \in Link} \cup {Asked(i) : i \in Invite}

Role   == {"owner", "admin", "member"}
Status == {"invited", "active", "suspended", "removed"}
Scope  == {"global", "private", "wide"}   \* access policies: members, members, workspace

MemberRow == [role : Role, status : Status] \cup {[role |-> "none", status |-> "none"]}
ConvRow   == [scope : Scope, creator : User] \cup {[scope |-> "none", creator |-> None]}
ShareRow  == [conv : Conversation, active : BOOLEAN] \cup {[conv |-> None, active |-> FALSE]}
AskedRow  == [to : User \cup {Anyone}, accepted : BOOLEAN] \cup {[to |-> None, accepted |-> FALSE]}

IsTables(v) ==
  /\ DOMAIN v = Row
  /\ \A u \in User : v[Member(u)] \in MemberRow
  /\ \A c \in Conversation : v[Conv(c)] \in ConvRow
  /\ \A c \in Conversation, u \in User : v[Seat(c, u)] \in BOOLEAN
  /\ \A p \in Couple : v[Pair(p)] \in Conversation \cup {None}
  /\ \A l \in Link : v[Share(l)] \in ShareRow
  /\ \A i \in Invite : v[Asked(i)] \in AskedRow

Active(v, u)   == v[Member(u)].status = "active"
Owners(v)      == {u \in User : v[Member(u)].role = "owner" /\ Active(v, u)}
People(v, c)   == {u \in User : v[Seat(c, u)]}
IsDM(v, c)     == \E p \in Couple : v[Pair(p)] = c
MembersOnly(v, c) == v[Conv(c)].scope \in {"global", "private"}

-----------------------------------------------------------------------------
(* What the constraint triggers demand of the rows.                        *)

HasOwner(v)      == Owners(v) # {}
Peopled(v, c)    == MembersOnly(v, c) => People(v, c) # {}
MaySit(v, c, u)  == (v[Seat(c, u)] /\ v[Conv(c)].scope = "private") => Active(v, u)
PairIntact(v, c) == IsDM(v, c) => (v[Conv(c)].scope = "global" /\ Cardinality(People(v, c)) = 2)

OwnerCheck      == <<"owner">>
SeatsCheck(u)   == <<"seats", u>>
SeatCheck(c, u) == <<"seat", c, u>>
RoomCheck(c)    == <<"room", c>>

Check ==
  {OwnerCheck} \cup {SeatsCheck(u) : u \in User} \cup {RoomCheck(c) : c \in Conversation}
  \cup {SeatCheck(c, u) : c \in Conversation, u \in User}

Passes(v, k) ==
  \/ k = OwnerCheck /\ HasOwner(v)
  \/ \E u \in User : k = SeatsCheck(u) /\ \A c \in Conversation : MaySit(v, c, u)
  \/ \E c \in Conversation, u \in User : k = SeatCheck(c, u) /\ MaySit(v, c, u)
  \/ \E c \in Conversation : k = RoomCheck(c) /\ Peopled(v, c) /\ PairIntact(v, c)

\* Mutant: the trigger on memberships does not look at private conversations.
DueBlindToMembers(w) ==
  {OwnerCheck : u \in {x \in User : Member(x) \in DOMAIN w}}
  \cup {RoomCheck(c) : c \in {d \in Conversation :
            Conv(d) \in DOMAIN w \/ \E u \in User : Seat(d, u) \in DOMAIN w}}
  \cup {SeatCheck(s[1], s[2]) : s \in {x \in Conversation \X User :
            Seat(x[1], x[2]) \in DOMAIN w /\ w[Seat(x[1], x[2])]}}

\* The checks that the written rows w queue for the end of the transaction.
\* Those of one conversation (participants left, pair intact) are taken as one.
Due(w) ==
  {OwnerCheck : u \in {x \in User : Member(x) \in DOMAIN w}}
  \cup {SeatsCheck(u) : u \in {x \in User : Member(x) \in DOMAIN w}}
  \cup {RoomCheck(c) : c \in {d \in Conversation :
            Conv(d) \in DOMAIN w \/ \E u \in User : Seat(d, u) \in DOMAIN w}}
  \cup {SeatCheck(s[1], s[2]) : s \in {x \in Conversation \X User :
            Seat(x[1], x[2]) \in DOMAIN w /\ w[Seat(x[1], x[2])]}}

-----------------------------------------------------------------------------
(* Transactions.                                                           *)

Overlay(w, v) ==
  [r \in DOMAIN w \cup DOMAIN v |-> IF r \in DOMAIN w THEN w[r] ELSE v[r]]
NoRows == [r \in {} |-> None]
Only(r, value) == [x \in {r} |-> value]

\* do: the request; seen: the membership row read; todo: what is left of a loop;
\* told: the rows whose change has an internal event; due: checks not yet run
Idle == [pc |-> "idle", do |-> None, seen |-> None, todo |-> {},
         writes |-> NoRows, locks |-> {}, told |-> {}, due |-> {}]

View(t) == Overlay(tx[t].writes, db)
Others(t) == Request \ {t}
Free(t, r) == \A o \in Others(t) : r \notin tx[o].locks
At(t, pc) == tx[t].pc = pc

\* The transaction after it has written w, with events for the rows told.
Wrote(t, w, told) ==
  [tx[t] EXCEPT !.writes = Overlay(w, @), !.locks = @ \cup DOMAIN w,
                !.told = @ \cup told, !.due = @ \cup Due(w)]

Becomes(t, rec) == tx' = [tx EXCEPT ![t] = rec] /\ UNCHANGED <<db, raced>>
Goto(t, pc)     == Becomes(t, [tx[t] EXCEPT !.pc = pc])
Rollback(t)     == Becomes(t, Idle)

Begin(t, do, pc) == tx[t] = Idle /\ Becomes(t, [Idle EXCEPT !.do = do, !.pc = pc])

\* A deferred check runs; if it fails, so does the commit.
RunCheck(t) ==
  /\ tx[t].pc \in {"done", "check"}
  /\ \E k \in tx[t].due :
       IF Passes(View(t), k)
       THEN Becomes(t, [tx[t] EXCEPT !.pc = "check", !.due = @ \ {k}])
       ELSE Rollback(t)

Commit(t) ==
  /\ tx[t].pc \in {"done", "check"} /\ tx[t].due = {}
  /\ db' = View(t)
  /\ tx' = [tx EXCEPT ![t] = Idle]
  /\ raced' = (raced \/ (tx[t].writes # NoRows /\ \E o \in Others(t) : At(o, "check")))

Abort(t) == tx[t] # Idle /\ Rollback(t)

=============================================================================
