------------------------------- MODULE Access -------------------------------
(***************************************************************************)
(* Signing in with a code sent by email or with an identity of an OAuth    *)
(* provider, sessions and API keys (routes_core.go, oauth.go), and agents  *)
(* with their one live key (routes_agents.go).                             *)
(***************************************************************************)
EXTENDS Requests

CONSTANTS
  EmailOf,    \* the verified email of each OAuth identity, or None (external)
  HandleOf    \* the handle derived from each email

-----------------------------------------------------------------------------
(* Signing in by email.                                                    *)

\* The code is drawn from the clock: two challenges may have the same.
StartEmailLogin(r) ==
  /\ At(r, "startEmail") /\ Connection
  /\ \E code \in Do(r).codes : db' = CreateEmailLoginChallenge(db, r, Do(r).email, code)
  /\ Becomes(r, [req[r] EXCEPT !.pc = "send code"])

\* The challenge stays when the code cannot be sent.
SendEmailLoginCode(r) ==
  /\ At(r, "send code")
  /\ \E a \in {"ok", "error"} : Answer(r, a)
  /\ UNCHANGED db

\* for update: the row the statement found is locked when it is free, and is
\* no result if it has been used by then.
FindChallenge(r) ==
  LET found == GetEmailLoginChallenge(Do(r).email, Do(r).code)
  IN /\ At(r, "verifyEmail")
     /\ IF found = {} THEN Refuse(r)
        ELSE \E c \in found : Locking(r, {}, c, "lock challenge")

\* Mutant: the row is read without for update.
LockChallengeNot(r) ==
  LET c == Got(r)
  IN /\ At(r, "lock challenge")
     /\ IF db.challenge[c].expired THEN Refuse(r)
        ELSE Locking(r, {}, [challenge |-> c, user |-> {}], "resolve user")
LockChallenge(r) ==
  LET c == Got(r)
  IN /\ At(r, "lock challenge") /\ Free(r, <<"challenge", c>>)
     /\ IF db.challenge[c].used \/ db.challenge[c].expired THEN Refuse(r)
        ELSE Locking(r, {<<"challenge", c>>}, [challenge |-> c, user |-> {}], "resolve user")

ResolveUserByEmail(r) ==
  /\ At(r, "resolve user")
  /\ Becomes(r, [req[r] EXCEPT !.got.user = GetUserByEmail(Do(r).email), !.pc = "sign in"])
  /\ UNCHANGED db

\* Either the user that was found, or a new one: with the email's handle, or,
\* without an email, with an address and a handle of its own.  A handle that is
\* taken fails the transaction: the next attempts of the loop run in a
\* transaction that is already aborted.
Handle(r, email) == IF email = None THEN r ELSE HandleOf[email]
InsertUserWithProfile(d, r, email) ==
  InsertInternalEvent(CreateUser(d, r, "human", IF email = None THEN r ELSE email, Handle(r, email)), r, "user", r, None)

SignIn(r, d, found, email, by) ==
  IF found # {} THEN \E u \in found : Commit(r, CreateAuthSession(d, r, u, by))
  ELSE IF UserClash(db, r, email, Handle(r, email)) THEN Fails(r)
  ELSE Commit(r, CreateAuthSession(InsertUserWithProfile(d, r, email), r, r, by))

VerifyEmail(r) ==
  /\ At(r, "sign in")
  /\ SignIn(r, ConsumeEmailLoginChallenge(db, Got(r).challenge), Got(r).user,
            Do(r).email, <<"code", Got(r).challenge>>)

-----------------------------------------------------------------------------
(* Signing in with an identity of a provider.                              *)

OAuthStart(r) == At(r, "startOAuth") /\ Commit(r, CreateOAuthState(db, r))

OAuthCallback(r) ==
  /\ At(r, "callback")
  /\ IF GetOAuthStateByHash(Do(r).state) = {} THEN Refuse(r) ELSE Read(r, None, "exchange")

\* external: the provider trades the code for a token and tells the identity
Exchange(r) ==
  /\ At(r, "exchange")
  /\ \/ Becomes(r, [req[r] EXCEPT !.pc = "delete state"]) /\ UNCHANGED db
     \/ Fails(r)

\* The row is locked; it is no error that it is gone.
DeleteState(r) ==
  /\ At(r, "delete state")
  /\ Locking(r, {<<"state", Do(r).state>>}, [account |-> {}, user |-> {}], "find account")

FindAccount(r) ==
  LET found == GetUserByOAuthAccount(Do(r).who)
  IN /\ At(r, "find account")
     /\ Becomes(r, [req[r] EXCEPT !.got = [account |-> found, user |-> found],
                    !.pc = IF found = {} /\ EmailOf[Do(r).who] # None THEN "account's email" ELSE "enter"])
     /\ UNCHANGED db

FindUserOfAccount(r) ==
  /\ At(r, "account's email")
  /\ Becomes(r, [req[r] EXCEPT !.got.user = GetUserByEmail(EmailOf[Do(r).who]), !.pc = "enter"])
  /\ UNCHANGED db

\* The account follows the user that was found or made, whoever had it.
ResolveOrCreateOAuthUser(r, d) ==
  IF Got(r).account # {} THEN d
  ELSE UpsertOAuthAccount(d, Do(r).who, IF Got(r).user = {} THEN r ELSE CHOOSE u \in Got(r).user : TRUE)

EnterWithAccount(r) ==
  /\ At(r, "enter")
  /\ SignIn(r, ResolveOrCreateOAuthUser(r, DeleteOAuthState(db, Do(r).state)), Got(r).user,
            EmailOf[Do(r).who], <<"account", Do(r).who>>)

-----------------------------------------------------------------------------
(* Sessions, the own profile, API keys.                                    *)

DeleteCurrentSession(r) ==
  LET s == Caller(r).session
  IN /\ At(r, "deleteSession")
     /\ IF s = None \/ ~db.session[s].live THEN Refuse(r) ELSE Commit(r, RevokeAuthSession(db, s))

PatchMeProfile(r) ==
  LET u == Caller(r).user
  IN /\ At(r, "patchMe")
     /\ IF ~EnsureHumanGlobal(Caller(r)) THEN Refuse(r)
        ELSE IF UserClash(db, u, None, Do(r).handle) THEN Fails(r)
        ELSE Commit(r, InsertInternalEvent(UpdateUserProfile(db, u, Do(r).handle, Do(r).bio), r, "user", u, None))

CreateKey(r) ==
  LET w == Do(r).space
  IN /\ At(r, "createKey")
     /\ IF EnsureHumanGlobal(Caller(r)) /\ (w # None => EnsureWorkspaceActiveMember(Caller(r), w))
        THEN Commit(r, CreateAPIKey(db, r, Caller(r).user, w))
        ELSE Refuse(r)

FindKey(r) ==
  /\ At(r, "deleteKey")
  /\ IF EnsureHumanGlobal(Caller(r)) /\ \E k \in GetAPIKeyByID(Do(r).key) : k.user = Caller(r).user
     THEN Read(r, None, "revoke key") ELSE Refuse(r)
DeleteKey(r) ==
  LET revoked == RevokeAPIKeyByOwner(db, Do(r).key, Caller(r).user)
  IN /\ At(r, "revoke key")
     /\ IF revoked = db THEN Refuse(r) ELSE Commit(r, revoked)

-----------------------------------------------------------------------------
(* Agents.                                                                 *)

\* A new agent of a workspace is a member of it; the key comes with the agent.
\* Its handle is the one given, or drawn with the display name.
InsertAgent(d, r, handle) ==
  LET w == Do(r).space
      user == CreateUser(d, r, "agent", None, handle)
      agent == CreateAgent(user, r, IF w = None THEN Caller(r).user ELSE None, w, Do(r).mode)
      member == IF w = None THEN agent ELSE CreateWorkspaceMembership(agent, w, r, "member")
  IN InsertInternalEvent(CreateAgentAPIKey(member, r, r), r, "user", r, w)

PostAgent(r) ==
  LET w == Do(r).space
  IN /\ At(r, "createAgent")
     /\ IF EnsureHumanGlobal(Caller(r)) /\ (w # None => EnsureWorkspaceAdmin(Caller(r), w))
        THEN \E handle \in Do(r).handles :
               IF UserClash(db, r, None, handle) THEN Refuse(r) ELSE Commit(r, InsertAgent(db, r, handle))
        ELSE Refuse(r)

AgentOp == {"patchAgent", "getAgentKey", "rotateAgentKey"}
Manageable(r) == \E a \in GetAgent(Do(r).agent) : EnsureAgentManager(Caller(r), a)

\* The user is read with the agent; who asked before this is answered is noted.
LoadAgent(r) ==
  /\ req[r].pc \in AgentOp
  /\ IF Manageable(r)
     THEN Read(r, [user |-> GetUser(Do(r).agent), before |-> Answered],
               CASE At(r, "patchAgent") -> "update agent"
                 [] At(r, "getAgentKey") -> "select token"
                 [] At(r, "rotateAgentKey") -> "revoke token")
     ELSE Refuse(r)

\* The profile is written back as it was read, but for what is given.
PatchAgent(r) ==
  LET a == Do(r).agent
      handle == IF Do(r).handle = None THEN Got(r).user.handle ELSE Do(r).handle
      profile == UpdateUserProfile(db, a, handle, Got(r).user.bio)
      status == IF Do(r).status = None THEN profile ELSE UpdateUserStatus(profile, a, Do(r).status)
  IN /\ At(r, "update agent")
     /\ IF UserClash(db, a, None, handle) THEN Fails(r)
        ELSE Commit(r, InsertInternalEvent(UpdateAgent(status, a, Do(r).mode), r, "user", a, db.agent[a].space))

\* The live token when the statement starts: waited for and read again.
Snapshot(r, step) ==
  Locking(r, {}, [Got(r) EXCEPT !.user = GetActiveAgentAPIKey(Do(r).agent)], step)
SelectToken(r) == At(r, "select token") /\ Snapshot(r, "lock token")
RevokeToken(r) == At(r, "revoke token") /\ Snapshot(r, "lock old token")

Rows(tokens) == {<<"token", t>> : t \in tokens}
StillLive(r) == Got(r).user \cap GetActiveAgentAPIKey(Do(r).agent)

\* A key whose token was not kept is replaced.
GetOrCreateAgentKey(r) ==
  LET live == StillLive(r)
  IN /\ At(r, "lock token") /\ \A row \in Rows(Got(r).user) : Free(r, row)
     /\ IF \E t \in live : ~db.token[t].blank
        THEN Answer(r, "ok") /\ UNCHANGED db
        ELSE Locking(r, Rows(live), [Got(r) EXCEPT !.user = live], "new token")

RotateAgentKey(r) ==
  /\ At(r, "lock old token")
  /\ Locking(r, Rows(Got(r).user), [Got(r) EXCEPT !.user = StillLive(r)], "new token")

\* One live key per agent: a unique index.  A key that is committed meanwhile
\* fails the transaction; one that is being replaced is waited for.
\* Mutant: no index.
TokenClashNever(r) == {}
TokenClash(r) == LiveTokens(db, Do(r).agent) \ Got(r).user

NewToken(r) ==
  /\ At(r, "new token")
  /\ \A row \in Rows(TokenClash(r)) : Free(r, row)
  /\ IF TokenClash(r) # {} THEN Fails(r)
     ELSE Commit(r, CreateAgentAPIKey(RevokeActiveAgentAPIKey(db, Got(r).user), r, Do(r).agent))

-----------------------------------------------------------------------------
AccessStep(r) ==
  \/ StartEmailLogin(r) \/ SendEmailLoginCode(r)
  \/ FindChallenge(r) \/ LockChallenge(r) \/ ResolveUserByEmail(r) \/ VerifyEmail(r)
  \/ OAuthStart(r) \/ OAuthCallback(r) \/ Exchange(r) \/ DeleteState(r)
  \/ FindAccount(r) \/ FindUserOfAccount(r) \/ EnterWithAccount(r)
  \/ DeleteCurrentSession(r) \/ PatchMeProfile(r) \/ CreateKey(r) \/ FindKey(r) \/ DeleteKey(r)
  \/ PostAgent(r) \/ LoadAgent(r) \/ PatchAgent(r)
  \/ SelectToken(r) \/ RevokeToken(r) \/ GetOrCreateAgentKey(r) \/ RotateAgentKey(r) \/ NewToken(r)
=============================================================================
