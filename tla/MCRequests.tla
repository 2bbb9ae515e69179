----------------------------- MODULE MCRequests -----------------------------
(***************************************************************************)
(* Instances of Service: scenes of at most three requests, on tables the   *)
(* handlers can produce.  ann owns the workspace acme, bob is a member,    *)
(* bot an agent of it; acme has the private conversation den of ann and    *)
(* bob and the open one o; g is a global one of the two.                   *)
(***************************************************************************)
EXTENDS Service

CONSTANTS r1, r2, r3, ann, bob, bot, acme, o, den, g, m1, m2, m3,
          sAnn, sBob, kAnn, kBob, tBot, ch1, ch2, st, acc, bare, eve, hEve, hBob, sub1

Emails == [x \in {acc, bare} |-> IF x = acc THEN eve ELSE None]
Handles == [x \in {eve, bob} |-> IF x = eve THEN hEve ELSE hBob]

User(kind, email, handle) ==
  [kind |-> kind, status |-> "active", email |-> email, handle |-> handle, bio |-> "set"]
Room(space, policy, creator, last) ==
  [space |-> space, policy |-> policy, creator |-> creator, title |-> "none", archived |-> FALSE, last |-> last]
Msg(c, at, deleted) == [room |-> c, author |-> ann, at |-> at, body |-> "posted", deleted |-> deleted]
Event(space, feeds) == [space |-> space, feeds |-> feeds]

Empty == [user |-> <<>>, challenge |-> <<>>, state |-> {}, account |-> <<>>, session |-> <<>>,
  key |-> <<>>, agent |-> <<>>, token |-> <<>>, space |-> <<>>, member |-> <<>>, room |-> <<>>,
  seat |-> {}, message |-> <<>>, read |-> <<>>, sub |-> <<>>, event |-> <<>>, told |-> {}, clock |-> 3]

Challenge(at) == [email |-> eve, code |-> 1, used |-> FALSE, expired |-> FALSE, at |-> at]
SignInTables == [Empty EXCEPT
  !.user = ann :> User("human", ann, ann), !.challenge = ch1 :> Challenge(0), !.state = {st}]

Team == [Empty EXCEPT
  !.user = ann :> User("human", ann, ann) @@ bob :> User("human", bob, bob) @@ bot :> User("agent", None, bot),
  !.session = sAnn :> [user |-> ann, live |-> TRUE, by |-> None]
              @@ sBob :> [user |-> bob, live |-> TRUE, by |-> None],
  !.key = kAnn :> [user |-> ann, space |-> acme, live |-> TRUE] @@ kBob :> [user |-> bob, space |-> acme, live |-> TRUE],
  !.agent = bot :> [owner |-> None, space |-> acme, mode |-> "safe_write"],
  !.token = tBot :> [agent |-> bot, live |-> TRUE, blank |-> FALSE],
  !.space = acme :> "slug",
  !.member = <<acme, ann>> :> "owner" @@ <<acme, bob>> :> "member" @@ <<acme, bot>> :> "member",
  !.room = o :> Room(acme, "workspace", ann, 1) @@ den :> Room(acme, "members", ann, 2) @@ g :> Room(None, "members", ann, 3),
  !.seat = {<<den, ann>>, <<den, bob>>, <<g, ann>>, <<g, bob>>},
  !.message = m1 :> Msg(den, 1, FALSE) @@ m2 :> Msg(den, 2, FALSE) @@ m3 :> Msg(den, 3, TRUE),
  !.sub = sub1 :> [owner |-> bob, space |-> acme, about |-> <<>>, enabled |-> TRUE]]

Feed == [Team EXCEPT !.event =
  1 :> Event(acme, {<<"conversation", den>>, <<"workspace", acme>>}) @@ 2 :> Event(None, {<<"conversation", g>>})
  @@ 3 :> Event(None, {<<"user", bob>>}) @@ 4 :> Event(acme, {<<"conversation", o>>, <<"workspace", acme>>})]

\* ann, bot, the workspace and the open conversation share a namespace, with
\* six documents for a search without a workspace, three of them of ann.
Spread(id, corpus) ==
  IF corpus = "entity" THEN (IF id = bob THEN 1 ELSE IF id \in {den, g} THEN 2 ELSE 0)
  ELSE IF id \in 1 .. 3 THEN 1 ELSE 0

-----------------------------------------------------------------------------
Asks(first, second, third) ==
  [r \in Request |-> IF r = r1 THEN first ELSE IF r = r2 THEN second ELSE third]
Scene(asks, tables) ==
  [asks |-> asks, db |-> tables, churn |-> {}, searched |-> FALSE, projected |-> FALSE,
   reindexed |-> {}, crashes |-> TRUE, limited |-> FALSE]

By(op, who) == [op |-> op, as |-> who]
Verify == [op |-> "verifyEmail", email |-> eve, code |-> 1]
Callback(who) == [op |-> "callback", state |-> st, who |-> who]
PatchMe(who, handle) == By("patchMe", who) @@ [handle |-> handle, bio |-> "set"]
Agent(op, who) == By(op, who) @@ [agent |-> bot]
NewAgent(who, space, handles) == By("createAgent", who) @@ [space |-> space, mode |-> "read_only", handles |-> handles]
PatchBot(who, handle, status, mode) ==
  Agent("patchAgent", who) @@ [handle |-> handle, status |-> status, mode |-> mode]
On(op, who, c) == By(op, who) @@ [room |-> c]
PatchRoom(who, c, archived) == On("patchRoom", who, c) @@ [title |-> "new", archived |-> archived]
Message(op, who, c, m) == On(op, who, c) @@ [message |-> m]
In(op, who, space) == By(op, who) @@ [space |-> space]
Slug(op, who, space, slug) == In(op, who, space) @@ [slug |-> slug]
Sub(op, who, enabled) == By(op, who) @@ [sub |-> sub1, enabled |-> enabled]
NewSub(who, space, about) == In("createSub", who, space) @@ [about |-> about]
Search1(who, kinds, space, c) == In("search", who, space) @@ [kinds |-> kinds, room |-> c]

Reads(who) ==
  {By(op, who) : op \in {"getMe", "listKeys", "listWorkspaces", "listAgents", "listSubs"}}
  \cup {In(op, who, acme) : op \in {"getWorkspace", "listMembers"}} \cup {Agent("getAgent", who)}
  \cup {On(op, who, c) : op \in {"getConversation", "listParticipants"}, c \in {den, g, o}}
Left == {<<"suspend", acme, bob>>, <<"leave", g, bob>>}

TheScenes ==
  \* the same code twice, and a code that is sent again; an identity of the same address
  "codes" :> [Scene(Asks({Verify}, {Verify, Callback(acc)},
                         {[op |-> "startEmail", email |-> eve, codes |-> {1}], By("deleteSession", r1),
                          PatchMe(r1, hBob)}), SignInTables) EXCEPT !.churn = {<<"expire", ch1>>}]
  \* one state or two, an identity with an address or without
  @@ "providers" :> Scene(Asks({Callback(acc), Callback(bare)}, {Callback(acc), Callback(bare), PatchMe(ann, hEve)},
                               {[op |-> "startOAuth"]}), SignInTables)
  @@ "keys" :> [Scene(Asks({In("createKey", sAnn, acme), In("createKey", kAnn, None)},
                           {By("deleteKey", sAnn) @@ [key |-> x] : x \in {kAnn, r1}},
                           {In("listKeys", x, acme) : x \in {r1, sAnn, tBot}}), Team)
                 EXCEPT !.churn = {<<"end", sAnn>>}]
  \* an agent's key is read and replaced, its profile changed
  @@ "agents" :> Scene(Asks({Agent("rotateAgentKey", sAnn), Agent("getAgentKey", sAnn)},
                            {Agent("rotateAgentKey", sAnn), PatchBot(sAnn, hEve, None, "read_only")},
                            {Agent("getAgentKey", sAnn), PatchBot(sAnn, None, "suspended", None),
                             NewAgent(sAnn, acme, {bot, hBob}), Agent("rotateAgentKey", sBob)}), Team)
  @@ "blank" :> Scene(Asks({Agent("getAgentKey", sAnn)}, {Agent("getAgentKey", sAnn), Agent("rotateAgentKey", sAnn)},
                           {Agent("patchAgent", tBot), NewAgent(sAnn, None, {hEve})}),
                      [Team EXCEPT !.token[tBot].blank = TRUE])
  \* a conversation, its messages, and who reads them
  @@ "rooms" :> Scene(Asks({PatchRoom(sAnn, den, TRUE), PatchRoom(sAnn, den, None)},
                           {PatchRoom(sAnn, den, None), Message("editMessage", sAnn, den, m1),
                            Message("deleteMessage", sAnn, den, m2), Message("putRead", sBob, den, m1)},
                           {PatchRoom(sAnn, den, FALSE), Message("putRead", sBob, den, m2), On("post", tBot, o)}), Team)
  @@ "pages" :> [Scene(Asks({On("listMessages", sBob, den)}, {On("post", sBob, den)},
                            {On("post", sBob, den), In("listConversations", sBob, acme), In("listConversations", sBob, None)}),
                       Team) EXCEPT !.churn = {<<"leave", den, bob>>}, !.crashes = FALSE]
  @@ "spaces" :> Scene(Asks({Slug("createWorkspace", sBob, None, "slug"), Slug("createWorkspace", sBob, None, "other")},
                            {Slug("patchWorkspace", sAnn, acme, "other"), Slug("patchWorkspace", kBob, acme, "other")},
                            Reads(sBob)), Team)
  @@ "reads" :> [Scene(Asks(Reads(sBob) \cup Reads(kBob) \cup Reads(tBot) \cup Reads(sAnn), {}, {}), Team)
                  EXCEPT !.churn = Left \cup {<<"end", sBob>>}]
  @@ "subs" :> [Scene(Asks({Sub("patchSub", sBob, FALSE), Sub("deleteSub", kBob, FALSE)},
                           {Sub("deleteSub", sBob, FALSE), NewSub(kBob, None, <<"conversation", den>>),
                            NewSub(sBob, None, <<"user", bob>>)},
                           {By("listSubs", sBob), By("listSubs", kBob)}), Team)
                 EXCEPT !.churn = {<<"suspend", acme, bob>>}]
  @@ "feed" :> [Scene(Asks({In("listEvents", sBob, None)}, {On("post", sBob, o)}, {}), Feed)
                 EXCEPT !.projected = TRUE, !.crashes = FALSE, !.churn = Left]
  \* searches with and without a key, a workspace, a conversation
  @@ "searches" :> [Scene(Asks({Search1(sBob, {}, None, None), Search1(kBob, {}, acme, None), Search1(kBob, {}, None, None),
                                Search1(sBob, {}, None, den), Search1(sAnn, {}, acme, o), Search1(kBob, {}, None, g),
                                Search1(tBot, {}, acme, den), Search1(tBot, {}, acme, None)},
                               {}, {}), [Feed EXCEPT !.message = m1 :> Msg(den, 1, FALSE) @@ m3 :> Msg(den, 3, TRUE)])
                    EXCEPT !.searched = TRUE, !.crashes = FALSE]
  @@ "stale" :> [Scene(Asks({Search1(sBob, {"message", "event"}, None, None), Search1(kBob, {"message", "event"}, acme, None)},
                            {Message("deleteMessage", sAnn, den, m1)}, {}), [Feed EXCEPT !.message = m1 :> Msg(den, 1, FALSE)])
                  EXCEPT !.searched = TRUE, !.reindexed = {"message", "event"}, !.churn = Left, !.crashes = FALSE]
  @@ "limiter" :> [Scene(Asks({}, {}, {}), Empty) EXCEPT !.limited = TRUE]

\* the feed on its own, with members that stay
FeedScenes == "feed" :> [TheScenes["feed"] EXCEPT !.churn = {}]
=============================================================================
