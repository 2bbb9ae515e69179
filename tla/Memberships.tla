---------------------------- MODULE Memberships ----------------------------
(***************************************************************************)
(* The workspace handlers of routes_core.go that change who is a member    *)
(* and in which role: invite, accept an invite, change a member.           *)
(* A member that stops being active leaves the private conversations of    *)
(* the workspace in the same transaction.                                  *)
(***************************************************************************)
EXTENDS Conversations

MembershipCommands ==
  [op : {"createInvite"}, by : User, to : User \cup {Anyone}]
  \cup [op : {"acceptInvite"}, by : User, invite : Invite]
  \cup [op : {"patchMember"}, by : User, user : User,
        role : Role \cup {"same"}, status : Status \cup {"same"}]

IsAdmin(v, u) == Active(v, u) /\ v[Member(u)].role \in {"owner", "admin"}

-----------------------------------------------------------------------------
FreshInvite(i) == db[Asked(i)].to = None /\ \A t \in Request : Asked(i) \notin DOMAIN tx[t].writes

CreateInvite(t, do) ==
  /\ do.op = "createInvite"
  /\ IsAdmin(db, do.by)
  /\ Begin(t, do, "insert invite")

InsertInvite(t) ==
  /\ At(t, "insert invite")
  /\ \E i \in Invite :
       /\ FreshInvite(i)
       /\ Becomes(t, [Wrote(t, Only(Asked(i), [to |-> tx[t].do.to, accepted |-> FALSE]), {Asked(i)})
                      EXCEPT !.pc = "done"])

-----------------------------------------------------------------------------
\* An invite past its expiry is not found; Abort stands for that answer.
AcceptInvite(t, do) == do.op = "acceptInvite" /\ Begin(t, do, "invite")

ReadInvite(t) ==
  LET i == tx[t].do.invite
  IN /\ At(t, "invite")
     /\ IF db[Asked(i)].to = None THEN Rollback(t)
        ELSE /\ Free(t, Asked(i))
             /\ IF db[Asked(i)].to \in {tx[t].do.by, Anyone}
                THEN Becomes(t, [tx[t] EXCEPT !.locks = @ \cup {Asked(i)}, !.pc = "membership"])
                ELSE Rollback(t)

\* The membership is locked and, if there is one that is not active, activated
\* in the role it has; if there is none, the user becomes a member.
ReadMembership(t) ==
  LET m   == Member(tx[t].do.by)
      row == View(t)[m]
  IN /\ At(t, "membership")
     /\ \/ row.status = "none" /\ Goto(t, "create membership")
        \/ row.status # "none" /\ Free(t, m) /\
           IF row.status = "active"
           THEN Becomes(t, [tx[t] EXCEPT !.locks = @ \cup {m}, !.pc = "accept"])
           ELSE Becomes(t, [Wrote(t, Only(m, [row EXCEPT !.status = "active"]), {m}) EXCEPT !.pc = "accept"])

\* (workspace_id, user_id) is unique
CreateMembership(t) ==
  LET m == Member(tx[t].do.by)
  IN /\ At(t, "create membership")
     /\ Free(t, m)
     /\ IF View(t)[m].status # "none" THEN Rollback(t)
        ELSE Becomes(t, [Wrote(t, Only(m, [role |-> "member", status |-> "active"]), {m})
                         EXCEPT !.pc = "accept"])

\* The invite is marked at its first use; it may be used again.
MarkAccepted(t) ==
  LET i == Asked(tx[t].do.invite)
  IN /\ At(t, "accept")
     /\ IF View(t)[i].accepted THEN Goto(t, "done")
        ELSE Becomes(t, [Wrote(t, Only(i, [View(t)[i] EXCEPT !.accepted = TRUE]), {}) EXCEPT !.pc = "done"])

-----------------------------------------------------------------------------
PatchMember(t, do) ==
  /\ do.op = "patchMember" /\ {do.role, do.status} # {"same"}
  /\ IsAdmin(db, do.by)
  /\ Begin(t, do, "lock member")

\* Mutant: the membership is read without for update.
LockMemberNot(t) ==
  LET m == Member(tx[t].do.user)
  IN /\ At(t, "lock member")
     /\ IF View(t)[m].status = "none" THEN Rollback(t)
        ELSE Becomes(t, [tx[t] EXCEPT !.seen = View(t)[m], !.pc = "update"])

LockMember(t) ==
  LET m == Member(tx[t].do.user)
  IN /\ At(t, "lock member")
     /\ IF View(t)[m].status = "none" THEN Rollback(t)
        ELSE /\ Free(t, m)
             /\ Becomes(t, [tx[t] EXCEPT !.locks = @ \cup {m}, !.seen = View(t)[m], !.pc = "update"])

\* Mutant: the request's fields are stored as they are.
PatchedRaw(do, seen) == [role |-> do.role, status |-> do.status]

\* The next row: what the request leaves out stays as it was read.
Patched(do, seen) ==
  [role   |-> IF do.role = "same" THEN seen.role ELSE do.role,
   status |-> IF do.status = "same" THEN seen.status ELSE do.status]

\* Mutant: only a change of role gives up an owner.
GivesUpRoleOnly(do, seen) == seen.role = "owner" /\ Patched(do, seen).role # "owner"

GivesUpOwner(do, seen) ==
  seen.role = "owner" /\ Patched(do, seen) # [role |-> "owner", status |-> "active"]

\* The owners are counted, and the row is written, which no one sees yet.
UpdateMember(t) ==
  LET do   == tx[t].do
      next == Patched(do, tx[t].seen)
      m    == Member(do.user)
  IN
  /\ At(t, "update") /\ Free(t, m)
  /\ IF GivesUpOwner(do, tx[t].seen) /\ Cardinality(Owners(View(t))) <= 1
     THEN Rollback(t)
     ELSE Becomes(t, [Wrote(t, Only(m, next), {m})
                      EXCEPT !.pc = IF next.status = "active" THEN "done" ELSE "list rooms"])

\* removeWorkspacePrivateConversationParticipantsTx: one query, then the deletes
ListRooms(t) ==
  LET rooms == {c \in Conversation : /\ View(t)[Conv(c)].scope = "private"
                                     /\ View(t)[Seat(c, tx[t].do.user)]}
  IN /\ At(t, "list rooms")
     /\ IF \E c \in rooms : Cardinality(People(View(t), c)) <= 1
        THEN Rollback(t)
        ELSE Becomes(t, [tx[t] EXCEPT !.todo = rooms, !.pc = "leave rooms"])

LeaveRoom(t) ==
  LET u == tx[t].do.user
  IN /\ At(t, "leave rooms")
     /\ \/ tx[t].todo = {} /\ Goto(t, "done")
        \/ \E c \in tx[t].todo :
             /\ Deletable(t, c, u)
             /\ LET left == IF View(t)[Seat(c, u)] THEN LeaveSeat(t, c, u) ELSE tx[t]
                IN Becomes(t, [left EXCEPT !.todo = @ \ {c}])

-----------------------------------------------------------------------------
MembershipRequest(t, do) == CreateInvite(t, do) \/ AcceptInvite(t, do) \/ PatchMember(t, do)

MembershipStep(t) ==
  \/ InsertInvite(t)
  \/ ReadInvite(t) \/ ReadMembership(t) \/ CreateMembership(t) \/ MarkAccepted(t)
  \/ LockMember(t) \/ UpdateMember(t) \/ ListRooms(t) \/ LeaveRoom(t)

=============================================================================
