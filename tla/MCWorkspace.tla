---------------------------- MODULE MCWorkspace ----------------------------
(***************************************************************************)
(* The instances of Workspace that TLC checks: tables to start from, all   *)
(* of which the handlers can produce, and the requests that are sent.      *)
(***************************************************************************)
EXTENDS Workspace, TLC

CONSTANTS u1, u2, u3, c1, c2, l1, l2, l3, i1

Symmetry == Permutations(Request)

Empty == [r \in Row |->
  CASE r[1] = "member"       -> [role |-> "none", status |-> "none"]
    [] r[1] = "conversation" -> [scope |-> "none", creator |-> None]
    [] r[1] = "participant"  -> FALSE
    [] r[1] = "pair"         -> None
    [] r[1] = "link"         -> [conv |-> None, active |-> FALSE]
    [] r[1] = "invite"       -> [to |-> None, accepted |-> FALSE]]

Is(role) == [role |-> role, status |-> "active"]

\* u1 has created the workspace
Founded == Overlay(Only(Member(u1), Is("owner")), Empty)

\* u1 has a private conversation too, alone, whose link was replaced and revoked
Settled ==
  Only(Conv(c2), [scope |-> "private", creator |-> u1]) @@ Only(Seat(c2, u1), TRUE)
  @@ Only(Share(l2), [conv |-> c2, active |-> FALSE]) @@ Only(Share(l3), [conv |-> c2, active |-> FALSE])
  @@ Founded

\* u2 was made an owner too, and the two have a private conversation whose
\* link was replaced twice; another is open to all members
TwoOwners ==
  Only(Member(u2), Is("owner")) @@ Only(Conv(c1), [scope |-> "private", creator |-> u1])
  @@ Only(Seat(c1, u1), TRUE) @@ Only(Seat(c1, u2), TRUE)
  @@ Only(Share(l1), [conv |-> c1, active |-> TRUE])
  @@ Only(Share(l2), [conv |-> c1, active |-> FALSE]) @@ Only(Share(l3), [conv |-> c1, active |-> FALSE])
  @@ Only(Conv(c2), [scope |-> "wide", creator |-> u1]) @@ Founded

\* u3 was invited by an open invite that it has accepted
WithMember ==
  Only(Asked(i1), [to |-> Anyone, accepted |-> TRUE]) @@ Only(Member(u3), Is("member")) @@ TwoOwners

Creations(scopes) == [op : {"createConversation"}, by : User, scope : scopes, who : SUBSET User]
Additions == [op : {"addParticipants"}, by : User, conv : Conversation, who : SUBSET User]
Removals  == [op : {"deleteParticipant"}, by : User, conv : Conversation, user : User]
Sharings  == [op : {"getShareLink", "rotateShareLink"}, by : User, conv : Conversation]
Joins     == [op : {"join"}, by : User, link : Link]
Invitings == [op : {"createInvite"}, by : User, to : User \cup {Anyone}]
Accepts   == [op : {"acceptInvite"}, by : User, invite : Invite]
Patches(roles, statuses) ==
  [op : {"patchMember"}, by : User, user : User, role : roles, status : statuses]
    \ [op : {"patchMember"}, by : User, user : User, role : {"same"}, status : {"same"}]

\* one thing changed at a time
OneChange == {do \in Patches({"owner", "member", "same"}, {"active", "suspended", "same"}) :
                do.role = "same" \/ do.status = "same"}

\* everything, one request at a time, about one conversation
SerialCommands ==
  {do \in Creations({"global", "private", "wide"}) : do.by \notin do.who}
  \cup {do \in Additions \cup Removals \cup Sharings : do.conv = c1 /\ (do.op = "addParticipants" => Cardinality(do.who) = 1)}
  \cup {do \in Joins : do.link = l1}
  \cup {do \in Invitings : do.to = Anyone} \cup Accepts \cup {do \in OneChange : do.by # u3}

\* members and who sits where
MemberCommands ==
  {do \in OneChange : <<do.by, do.user>> \in {<<u1, u2>>, <<u2, u1>>}}
  \cup {do \in OneChange : do.by = u1 /\ do.user = u3 /\ do.status = "suspended"}
  \cup {do \in Accepts : do.by = u3}
  \cup {do \in Removals : do.by = u1 /\ do.user # u3} \cup {do \in Additions : do.by = u2 /\ do.who = {u3}}

\* conversations from nothing, direct ones among them, their links and who
\* joins by them
RoomCommands ==
  {do \in Creations({"global"}) : <<do.by, do.who>> \in {<<u1, {u2}>>, <<u2, {u1}>>, <<u1, {u2, u3}>>}}
  \cup {do \in Creations({"private"}) : do.by = u1 /\ do.who = {}}
  \cup {do \in Sharings : do.by = u1} \cup {do \in Joins : do.by = u2}
  \cup {do \in Removals : do.by = u1 /\ do.user = u2}

OneAtATime == "serial" :> [start |-> Settled, commands |-> SerialCommands, atOnce |-> 1]
Members == "members" :> [start |-> WithMember, commands |-> MemberCommands, atOnce |-> 2]
Rooms == "rooms" :> [start |-> Founded, commands |-> RoomCommands, atOnce |-> 2]
AllScenes == OneAtATime @@ Members @@ Rooms
=============================================================================
