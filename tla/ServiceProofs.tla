---------------------------- MODULE ServiceProofs ----------------------------
(***************************************************************************)
(* What holds of Service for any users, requests and scenes.               *)
(***************************************************************************)
EXTENDS Service, RateLimiterProofs

\* The limiter in the service takes its own steps and no others.
LEMMA LimiterInService == Spec => LimiterSpec
<1>1. Init => LimiterInit
  BY DEF Init
<1>2. [Next]_vars => [LimiterNext]_limiterVars
  BY DEF Next, Serve, Others, vars, limiterVars
<1> QED BY <1>1, <1>2, PTL DEF Spec, LimiterSpec

\* Whatever requests are in progress, no window admits more calls than the
\* quota (ratelimit.go, Allow).
THEOREM ServiceRateBound == Spec => []RateBound
BY LimiterInService, WindowsAreBounded

-----------------------------------------------------------------------------
(***************************************************************************)
(* The invariant that the properties of sign-in, of agents' keys and of    *)
(* overlapping changes rest on: what the steps of a handler have found is  *)
(* still so.  Rows are not deleted, but for subscriptions, and what the    *)
(* handlers keep of them (who a row is of) does not change.                *)
(***************************************************************************)

Fields == {"do", "pc", "auth", "tx", "locks", "got", "answer"}

\* One request: its fields, its answer, its locks, its command and its caller.
RequestOK(r) ==
  /\ DOMAIN req[r] = Fields
  /\ req[r].answer \in {None, "ok", "refused", "error"} /\ (req[r].answer # None <=> At(r, "done"))
  /\ req[r].locks # {} => req[r].tx
  /\ ~At(r, "new") => IsCommand(Do(r))
  /\ req[r].pc \in Steps \/ At(r, Do(r).op)
  /\ Caller(r) # None => Caller(r).user \in DOMAIN db.user
  /\ req[r].pc \notin Steps \cup Unauthenticated => Caller(r).user \in DOMAIN db.user

\* Signing in by email: the challenge is of the address, and still open from
\* when it is locked; a user that was found has the address.
SignInSteps == {"lock challenge", "resolve user", "sign in"}
SignInOK(r) ==
  /\ req[r].pc \in SignInSteps => Do(r).op = "verifyEmail"
  /\ At(r, "lock challenge") =>
       Got(r) \in DOMAIN db.challenge /\ db.challenge[Got(r)].email = Do(r).email
  /\ req[r].pc \in {"resolve user", "sign in"} =>
       /\ DOMAIN Got(r) = {"challenge", "user"} /\ Got(r).challenge \in DOMAIN db.challenge
       /\ db.challenge[Got(r).challenge].email = Do(r).email
       /\ ~db.challenge[Got(r).challenge].used
       /\ <<"challenge", Got(r).challenge>> \in req[r].locks
  /\ At(r, "sign in") =>
       \A u \in Got(r).user : u \in DOMAIN db.user /\ db.user[u].email = Do(r).email

\* Signing in with an identity: likewise.
CallbackSteps == {"exchange", "delete state", "find account", "account's email", "enter"}
CallbackOK(r) ==
  /\ req[r].pc \in CallbackSteps => Do(r).op = "callback"
  /\ req[r].pc \in {"account's email", "enter"} =>
       /\ DOMAIN Got(r) = {"account", "user"}
       /\ \A u \in Got(r).user : u \in DOMAIN db.user
            /\ (EmailOf[Do(r).who] # None => db.user[u].email = EmailOf[Do(r).who])

\* Agents: what is revoked with a new key is the agent's own; the handle that
\* is written back was changed by no request answered before it was read.
TokenSteps == {"select token", "revoke token", "lock token", "lock old token", "new token"}
AgentOK(r) ==
  /\ req[r].pc \in {"update agent"} \cup TokenSteps =>
       DOMAIN Got(r) = {"user", "before"} /\ Do(r).agent \in DOMAIN db.agent
  /\ req[r].pc \in {"lock token", "lock old token", "new token"} =>
       \A t \in Got(r).user : t \in DOMAIN db.token /\ db.token[t].agent = Do(r).agent
  /\ At(r, "update agent") =>
       /\ Do(r).op = "patchAgent" /\ Got(r).before \subseteq Answered
       /\ Answered \subseteq Got(r).before => db.user[Do(r).agent].handle = Got(r).user.handle

\* Conversations: they are there, and the archived mark likewise.
RoomOK(r) ==
  /\ req[r].pc \in {"update room", "insert message"} => Do(r).room \in DOMAIN db.room
  /\ At(r, "update room") =>
       /\ Do(r).op = "patchRoom" /\ Got(r).before \subseteq Answered
       /\ Answered \subseteq Got(r).before => db.room[Do(r).room].archived = Got(r).archived

StepOK(r) == SignInOK(r) /\ CallbackOK(r) /\ AgentOK(r) /\ RoomOK(r)

\* A request that has not inserted its rows has none; no two hold a lock.
Fresh == \A r \in Request : req[r].pc \notin {"done", "send code"} =>
  \A t \in NamedByRequest : r \notin DOMAIN db[t]
LocksApart == \A q, r \in Request : q # r => req[q].locks \cap req[r].locks = {}

\* A session that was opened with a code has used it up, alone.
CodesOK == \A s \in DOMAIN db.session : \A c \in DOMAIN db.challenge :
  db.session[s].by = <<"code", c>> =>
    /\ db.challenge[c].used
    /\ \A t \in DOMAIN db.session : db.session[t].by = <<"code", c>> => t = s

\* A session is of the user who has the address it was opened for.
PeopleOK ==
  /\ \A u, v \in DOMAIN db.user : db.user[u].email # None /\ db.user[u].email = db.user[v].email => u = v
  /\ \A u \in DOMAIN db.user : db.user[u].email \in Request => db.user[u].email = u
  /\ \A who \in DOMAIN db.account :
       EmailOf[who] # None => db.user[db.account[who]].email = EmailOf[who]
  /\ \A s \in DOMAIN db.session :
       /\ \/ db.session[s].by = None
          \/ \E c \in DOMAIN db.challenge : db.session[s].by = <<"code", c>>
          \/ \E who : db.session[s].by = <<"account", who>>
       /\ Person(db.session[s].by) # None => db.user[db.session[s].user].email = Person(db.session[s].by)

\* An agent has one live key.
KeysOK == \A a \in DOMAIN db.agent : \E t \in DOMAIN db.token : LiveTokens(db, a) = {t}

Inv ==
  /\ DOMAIN req = Request /\ scene \in DOMAIN Scenes /\ churn \subseteq Here.churn
  /\ IsTables(db) /\ References(db)
  /\ \A r \in Request : RequestOK(r) /\ StepOK(r)
  /\ Fresh /\ LocksApart
  /\ CodesOK /\ PeopleOK /\ KeysOK

-----------------------------------------------------------------------------
(***************************************************************************)
(* What a step does to its request.                                        *)
(***************************************************************************)

\* A step of r from one of the places in from to one of those in to: the other
\* requests stay as they are, and r takes no lock that another holds.
Turn(r, from, to) ==
  /\ req' = [req EXCEPT ![r] = req'[r]]
  /\ DOMAIN req'[r] = Fields
  /\ req'[r].do = req[r].do /\ req'[r].auth = req[r].auth
  /\ req[r].pc \in from /\ req'[r].pc \in to
  /\ req'[r].answer \in {None, "ok", "refused", "error"}
  /\ req'[r].answer # None <=> req'[r].pc = "done"
  /\ req'[r].locks # {} => req'[r].tx
  /\ \A row \in req'[r].locks : row \in req[r].locks \/ Free(r, row)

RequestShape(r) ==
  /\ DOMAIN req = Request /\ r \in Request /\ DOMAIN req[r] = Fields
  /\ req[r].answer \in {None, "ok", "refused", "error"} /\ (req[r].answer # None <=> At(r, "done"))
  /\ req[r].locks # {} => req[r].tx

\* The answer: the end of the request, with its locks released.
LEMMA AnswerTurn ==
  ASSUME NEW r, RequestShape(r), NEW a \in {"ok", "refused", "error"}, Answer(r, a),
         NEW from, req[r].pc \in from
  PROVE  Turn(r, from, {"done"}) /\ req'[r].answer = a /\ req'[r].got = req[r].got
BY NoneAssumption DEF RequestShape, Fields, Answer, Becomes, Turn

LEMMA RefuseTurn ==
  ASSUME NEW r, RequestShape(r), Refuse(r) \/ Fails(r), NEW from, req[r].pc \in from
  PROVE  Turn(r, from, {"done"}) /\ db' = db /\ req'[r].answer # "ok" /\ req'[r].got = req[r].got
BY AnswerTurn DEF Refuse, Fails

LEMMA ReadTurn ==
  ASSUME NEW r, RequestShape(r), NEW got, NEW step, Read(r, got, step), step # "done",
         NEW from, req[r].pc \in from, "done" \notin from
  PROVE  Turn(r, from, {step}) /\ db' = db /\ req'[r].got = got /\ req'[r].locks = req[r].locks
BY NoneAssumption DEF RequestShape, Fields, Read, Becomes, Turn, At

LEMMA LockTurn ==
  ASSUME NEW r, RequestShape(r), NEW rows, NEW got, NEW step, Locking(r, rows, got, step),
         step # "done", NEW from, req[r].pc \in from, "done" \notin from
  PROVE  Turn(r, from, {step}) /\ db' = db /\ req'[r].got = got
         /\ req'[r].locks = req[r].locks \cup rows
BY NoneAssumption DEF RequestShape, Fields, Locking, Becomes, Turn, At, Free

LEMMA CommitTurn ==
  ASSUME NEW r, RequestShape(r), NEW tables, Commit(r, tables), NEW from, req[r].pc \in from
  PROVE  Turn(r, from, {"done"}) /\ db' = tables /\ req'[r].answer = "ok" /\ req'[r].got = req[r].got
BY AnswerTurn DEF Commit

\* A step that goes on to a place in to, with what it has found and perhaps more
\* locks, or ends the request without a write.
Looks(r, to) ==
  \/ Refuse(r) \/ Fails(r)
  \/ \E got : \E step \in to : Read(r, got, step) \/ \E rows : Locking(r, rows, got, step)

\* A step that ends the request, with a write or without.
Writes(r) == Refuse(r) \/ Fails(r) \/ \E tables : Commit(r, tables)

LEMMA LooksTurn ==
  ASSUME NEW r, RequestShape(r), NEW to, Looks(r, to), "done" \notin to,
         NEW from, req[r].pc \in from, "done" \notin from
  PROVE  Turn(r, from, to \cup {"done"}) /\ db' = db
<1>1. CASE Refuse(r) \/ Fails(r)
  BY <1>1, RefuseTurn DEF Turn
<1>2. ASSUME NEW got, NEW step \in to, Read(r, got, step)
      PROVE  Turn(r, from, to \cup {"done"}) /\ db' = db
  <2>1. Turn(r, from, {step}) /\ db' = db
    BY <1>2, ReadTurn
  <2> QED BY <2>1 DEF Turn
<1>3. ASSUME NEW got, NEW step \in to, NEW rows, Locking(r, rows, got, step)
      PROVE  Turn(r, from, to \cup {"done"}) /\ db' = db
  <2>1. Turn(r, from, {step}) /\ db' = db
    BY <1>3, LockTurn
  <2> QED BY <2>1 DEF Turn
<1> QED BY <1>1, <1>2, <1>3 DEF Looks

LEMMA WritesTurn ==
  ASSUME NEW r, RequestShape(r), Writes(r), NEW from, req[r].pc \in from
  PROVE  Turn(r, from, {"done"})
BY RefuseTurn, CommitTurn DEF Writes

\* A step that changes the place and what was found, and nothing else.
LEMMA MoveTurn ==
  ASSUME NEW r, RequestShape(r), NEW e, Becomes(r, e), DOMAIN e = Fields,
         e.do = req[r].do, e.auth = req[r].auth, e.tx = req[r].tx, e.locks = req[r].locks,
         e.answer = IF e.pc = "done" THEN "ok" ELSE req[r].answer,
         NEW from, req[r].pc \in from, "done" \notin from, NEW to, e.pc \in to
  PROVE  Turn(r, from, to) /\ req'[r] = e
BY NoneAssumption DEF RequestShape, Becomes, Turn, At

\* Signing in.
LEMMA SignInTurns ==
  ASSUME NEW r, RequestShape(r)
  PROVE  /\ StartEmailLogin(r) => Turn(r, {"startEmail"}, {"send code"})
         /\ SendEmailLoginCode(r) => Turn(r, {"send code"}, {"done"}) /\ db' = db
         /\ FindChallenge(r) => Turn(r, {"verifyEmail"}, {"lock challenge", "done"}) /\ db' = db
         /\ LockChallenge(r) => Turn(r, {"lock challenge"}, {"resolve user", "done"}) /\ db' = db
         /\ ResolveUserByEmail(r) => Turn(r, {"resolve user"}, {"sign in"}) /\ db' = db
         /\ VerifyEmail(r) => Turn(r, {"sign in"}, {"done"})
         /\ OAuthStart(r) => Turn(r, {"startOAuth"}, {"done"})
         /\ OAuthCallback(r) => Turn(r, {"callback"}, {"exchange", "done"}) /\ db' = db
         /\ Exchange(r) => Turn(r, {"exchange"}, {"delete state", "done"}) /\ db' = db
         /\ DeleteState(r) => Turn(r, {"delete state"}, {"find account", "done"}) /\ db' = db
         /\ FindAccount(r) => Turn(r, {"find account"}, {"account's email", "enter"}) /\ db' = db
         /\ FindUserOfAccount(r) => Turn(r, {"account's email"}, {"enter"}) /\ db' = db
         /\ EnterWithAccount(r) => Turn(r, {"enter"}, {"done"})
<1>1. ASSUME StartEmailLogin(r) PROVE Turn(r, {"startEmail"}, {"send code"})
  <2>1. req[r].pc \in {"startEmail"}
    BY <1>1 DEF StartEmailLogin, At
  <2>2. PICK e : e = [req[r] EXCEPT !.pc = "send code"]
    OBVIOUS
  <2>3. Becomes(r, e)
    BY <1>1, <2>2 DEF StartEmailLogin
  <2>4. /\ DOMAIN e = Fields
        /\ e.do = req[r].do /\ e.auth = req[r].auth /\ e.tx = req[r].tx /\ e.locks = req[r].locks
        /\ e.pc \in {"send code"}
        /\ e.answer = IF e.pc = "done" THEN "ok" ELSE req[r].answer
    BY <2>2 DEF RequestShape, Fields
  <2> QED BY <2>1, <2>3, <2>4, MoveTurn
<1>2. ASSUME SendEmailLoginCode(r) PROVE Turn(r, {"send code"}, {"done"}) /\ db' = db
  <2>1. req[r].pc \in {"send code"}
    BY <1>2 DEF SendEmailLoginCode, At
  <2>2. PICK a \in {"ok", "error"} : Answer(r, a)
    BY <1>2 DEF SendEmailLoginCode
  <2>3. db' = db
    BY <1>2 DEF SendEmailLoginCode
  <2> QED BY <2>1, <2>2, <2>3, AnswerTurn
<1>3. ASSUME FindChallenge(r) PROVE Turn(r, {"verifyEmail"}, {"lock challenge", "done"}) /\ db' = db
  <2>1. req[r].pc \in {"verifyEmail"}
    BY <1>3 DEF FindChallenge, At
  <2>2. Looks(r, {"lock challenge"})
    BY <1>3 DEF FindChallenge, Looks
  <2>4. Turn(r, {"verifyEmail"}, {"lock challenge"} \cup {"done"}) /\ db' = db
    BY <2>1, <2>2, LooksTurn
  <2> QED BY <2>4 DEF Turn
<1>4. ASSUME LockChallenge(r) PROVE Turn(r, {"lock challenge"}, {"resolve user", "done"}) /\ db' = db
  <2>1. req[r].pc \in {"lock challenge"}
    BY <1>4 DEF LockChallenge, At
  <2>2. Looks(r, {"resolve user"})
    BY <1>4 DEF LockChallenge, Looks
  <2>4. Turn(r, {"lock challenge"}, {"resolve user"} \cup {"done"}) /\ db' = db
    BY <2>1, <2>2, LooksTurn
  <2> QED BY <2>4 DEF Turn
<1>5. ASSUME ResolveUserByEmail(r) PROVE Turn(r, {"resolve user"}, {"sign in"}) /\ db' = db
  <2>1. req[r].pc \in {"resolve user"}
    BY <1>5 DEF ResolveUserByEmail, At
  <2>2. PICK e : e = [req[r] EXCEPT !.got.user = GetUserByEmail(Do(r).email), !.pc = "sign in"]
    OBVIOUS
  <2>3. Becomes(r, e) /\ db' = db
    BY <1>5, <2>2 DEF ResolveUserByEmail
  <2>4. /\ DOMAIN e = Fields
        /\ e.do = req[r].do /\ e.auth = req[r].auth /\ e.tx = req[r].tx /\ e.locks = req[r].locks
        /\ e.pc \in {"sign in"}
        /\ e.answer = IF e.pc = "done" THEN "ok" ELSE req[r].answer
    BY <2>2 DEF RequestShape, Fields
  <2> QED BY <2>1, <2>3, <2>4, MoveTurn
<1>6. ASSUME VerifyEmail(r) PROVE Turn(r, {"sign in"}, {"done"})
  <2>1. req[r].pc \in {"sign in"}
    BY <1>6 DEF VerifyEmail, At
  <2>2. Writes(r)
    BY <1>6 DEF VerifyEmail, Writes, SignIn
  <2> QED BY <2>1, <2>2, WritesTurn
<1>7. ASSUME OAuthStart(r) PROVE Turn(r, {"startOAuth"}, {"done"})
  <2>1. req[r].pc \in {"startOAuth"}
    BY <1>7 DEF OAuthStart, At
  <2>2. Writes(r)
    BY <1>7 DEF OAuthStart, Writes
  <2> QED BY <2>1, <2>2, WritesTurn
<1>8. ASSUME OAuthCallback(r) PROVE Turn(r, {"callback"}, {"exchange", "done"}) /\ db' = db
  <2>1. req[r].pc \in {"callback"}
    BY <1>8 DEF OAuthCallback, At
  <2>2. Looks(r, {"exchange"})
    BY <1>8 DEF OAuthCallback, Looks
  <2>4. Turn(r, {"callback"}, {"exchange"} \cup {"done"}) /\ db' = db
    BY <2>1, <2>2, LooksTurn
  <2> QED BY <2>4 DEF Turn
<1>9. ASSUME Exchange(r) PROVE Turn(r, {"exchange"}, {"delete state", "done"}) /\ db' = db
  <2>1. req[r].pc \in {"exchange"}
    BY <1>9 DEF Exchange, At
  <2>2. Fails(r) \/ (Becomes(r, [req[r] EXCEPT !.pc = "delete state"]) /\ db' = db)
    BY <1>9 DEF Exchange
  <2>3. CASE Fails(r)
    BY <2>1, <2>3, RefuseTurn DEF Turn
  <2>4. CASE Becomes(r, [req[r] EXCEPT !.pc = "delete state"]) /\ db' = db
    <3>1. PICK e : e = [req[r] EXCEPT !.pc = "delete state"]
      OBVIOUS
    <3>2. Becomes(r, e)
      BY <2>4, <3>1
    <3>3. /\ DOMAIN e = Fields
          /\ e.do = req[r].do /\ e.auth = req[r].auth /\ e.tx = req[r].tx /\ e.locks = req[r].locks
          /\ e.pc \in {"delete state"}
          /\ e.answer = IF e.pc = "done" THEN "ok" ELSE req[r].answer
      BY <3>1 DEF RequestShape, Fields
    <3>4. Turn(r, {"exchange"}, {"delete state"})
      BY <2>1, <3>2, <3>3, MoveTurn
    <3> QED BY <2>4, <3>4 DEF Turn
  <2> QED BY <2>2, <2>3, <2>4
<1>10. ASSUME DeleteState(r) PROVE Turn(r, {"delete state"}, {"find account", "done"}) /\ db' = db
  <2>1. req[r].pc \in {"delete state"}
    BY <1>10 DEF DeleteState, At
  <2>2. Looks(r, {"find account"})
    BY <1>10 DEF DeleteState, Looks
  <2>4. Turn(r, {"delete state"}, {"find account"} \cup {"done"}) /\ db' = db
    BY <2>1, <2>2, LooksTurn
  <2> QED BY <2>4 DEF Turn
<1>11. ASSUME FindAccount(r) PROVE Turn(r, {"find account"}, {"account's email", "enter"}) /\ db' = db
  <2>1. req[r].pc \in {"find account"}
    BY <1>11 DEF FindAccount, At
  <2>2. PICK e : e = [req[r] EXCEPT
          !.got = [account |-> GetUserByOAuthAccount(Do(r).who), user |-> GetUserByOAuthAccount(Do(r).who)],
          !.pc = IF GetUserByOAuthAccount(Do(r).who) = {} /\ EmailOf[Do(r).who] # None
                 THEN "account's email" ELSE "enter"]
    OBVIOUS
  <2>3. Becomes(r, e) /\ db' = db
    BY <1>11, <2>2 DEF FindAccount
  <2>4. /\ DOMAIN e = Fields
        /\ e.do = req[r].do /\ e.auth = req[r].auth /\ e.tx = req[r].tx /\ e.locks = req[r].locks
        /\ e.pc \in {"account's email", "enter"}
        /\ e.answer = IF e.pc = "done" THEN "ok" ELSE req[r].answer
    BY <2>2 DEF RequestShape, Fields
  <2> QED BY <2>1, <2>3, <2>4, MoveTurn
<1>12. ASSUME FindUserOfAccount(r) PROVE Turn(r, {"account's email"}, {"enter"}) /\ db' = db
  <2>1. req[r].pc \in {"account's email"}
    BY <1>12 DEF FindUserOfAccount, At
  <2>2. PICK e : e = [req[r] EXCEPT !.got.user = GetUserByEmail(EmailOf[Do(r).who]), !.pc = "enter"]
    OBVIOUS
  <2>3. Becomes(r, e) /\ db' = db
    BY <1>12, <2>2 DEF FindUserOfAccount
  <2>4. /\ DOMAIN e = Fields
        /\ e.do = req[r].do /\ e.auth = req[r].auth /\ e.tx = req[r].tx /\ e.locks = req[r].locks
        /\ e.pc \in {"enter"}
        /\ e.answer = IF e.pc = "done" THEN "ok" ELSE req[r].answer
    BY <2>2 DEF RequestShape, Fields
  <2> QED BY <2>1, <2>3, <2>4, MoveTurn
<1>13. ASSUME EnterWithAccount(r) PROVE Turn(r, {"enter"}, {"done"})
  <2>1. req[r].pc \in {"enter"}
    BY <1>13 DEF EnterWithAccount, At
  <2>2. Writes(r)
    BY <1>13 DEF EnterWithAccount, Writes, SignIn
  <2> QED BY <2>1, <2>2, WritesTurn
<1> QED BY <1>1, <1>2, <1>3, <1>4, <1>5, <1>6, <1>7, <1>8, <1>9, <1>10, <1>11, <1>12, <1>13

\* Sessions, the own profile, API keys and agents.
LEMMA AccountTurns ==
  ASSUME NEW r, RequestShape(r)
  PROVE  /\ DeleteCurrentSession(r) => Turn(r, {"deleteSession"}, {"done"})
         /\ PatchMeProfile(r) => Turn(r, {"patchMe"}, {"done"})
         /\ CreateKey(r) => Turn(r, {"createKey"}, {"done"})
         /\ FindKey(r) => Turn(r, {"deleteKey"}, {"revoke key", "done"}) /\ db' = db
         /\ DeleteKey(r) => Turn(r, {"revoke key"}, {"done"})
         /\ PostAgent(r) => Turn(r, {"createAgent"}, {"done"})
         /\ LoadAgent(r) => Turn(r, AgentOp, {"update agent", "select token", "revoke token", "done"}) /\ db' = db
         /\ PatchAgent(r) => Turn(r, {"update agent"}, {"done"})
         /\ SelectToken(r) => Turn(r, {"select token"}, {"lock token", "done"}) /\ db' = db
         /\ RevokeToken(r) => Turn(r, {"revoke token"}, {"lock old token", "done"}) /\ db' = db
         /\ GetOrCreateAgentKey(r) => Turn(r, {"lock token"}, {"new token", "done"}) /\ db' = db
         /\ RotateAgentKey(r) => Turn(r, {"lock old token"}, {"new token", "done"}) /\ db' = db
         /\ NewToken(r) => Turn(r, {"new token"}, {"done"})
<1>1. ASSUME DeleteCurrentSession(r) PROVE Turn(r, {"deleteSession"}, {"done"})
  <2>1. req[r].pc \in {"deleteSession"}
    BY <1>1 DEF DeleteCurrentSession, At
  <2>2. Writes(r)
    BY <1>1 DEF DeleteCurrentSession, Writes
  <2> QED BY <2>1, <2>2, WritesTurn
<1>2. ASSUME PatchMeProfile(r) PROVE Turn(r, {"patchMe"}, {"done"})
  <2>1. req[r].pc \in {"patchMe"}
    BY <1>2 DEF PatchMeProfile, At
  <2>2. Writes(r)
    BY <1>2 DEF PatchMeProfile, Writes
  <2> QED BY <2>1, <2>2, WritesTurn
<1>3. ASSUME CreateKey(r) PROVE Turn(r, {"createKey"}, {"done"})
  <2>1. req[r].pc \in {"createKey"}
    BY <1>3 DEF CreateKey, At
  <2>2. Writes(r)
    BY <1>3 DEF CreateKey, Writes
  <2> QED BY <2>1, <2>2, WritesTurn
<1>4. ASSUME FindKey(r) PROVE Turn(r, {"deleteKey"}, {"revoke key", "done"}) /\ db' = db
  <2>1. req[r].pc \in {"deleteKey"}
    BY <1>4 DEF FindKey, At
  <2>2. Looks(r, {"revoke key"})
    BY <1>4 DEF FindKey, Looks
  <2>4. Turn(r, {"deleteKey"}, {"revoke key"} \cup {"done"}) /\ db' = db
    BY <2>1, <2>2, LooksTurn
  <2> QED BY <2>4 DEF Turn
<1>5. ASSUME DeleteKey(r) PROVE Turn(r, {"revoke key"}, {"done"})
  <2>1. req[r].pc \in {"revoke key"}
    BY <1>5 DEF DeleteKey, At
  <2>2. Writes(r)
    BY <1>5 DEF DeleteKey, Writes
  <2> QED BY <2>1, <2>2, WritesTurn
<1>6. ASSUME PostAgent(r) PROVE Turn(r, {"createAgent"}, {"done"})
  <2>1. req[r].pc \in {"createAgent"}
    BY <1>6 DEF PostAgent, At
  <2>2. Writes(r)
    BY <1>6 DEF PostAgent, Writes
  <2> QED BY <2>1, <2>2, WritesTurn
<1>7. ASSUME LoadAgent(r) PROVE Turn(r, AgentOp, {"update agent", "select token", "revoke token", "done"}) /\ db' = db
  <2>1. req[r].pc \in AgentOp
    BY <1>7 DEF LoadAgent, At, AgentOp
  <2>2. Looks(r, {"update agent", "select token", "revoke token"})
    BY <1>7 DEF LoadAgent, Looks, AgentOp, At
  <2>3. "done" \notin AgentOp
    BY DEF AgentOp
  <2>4. Turn(r, AgentOp, {"update agent", "select token", "revoke token"} \cup {"done"}) /\ db' = db
    BY <2>1, <2>2, <2>3, LooksTurn
  <2> QED BY <2>4 DEF Turn
<1>8. ASSUME PatchAgent(r) PROVE Turn(r, {"update agent"}, {"done"})
  <2>1. req[r].pc \in {"update agent"}
    BY <1>8 DEF PatchAgent, At
  <2>2. Writes(r)
    BY <1>8 DEF PatchAgent, Writes
  <2> QED BY <2>1, <2>2, WritesTurn
<1>9. ASSUME SelectToken(r) PROVE Turn(r, {"select token"}, {"lock token", "done"}) /\ db' = db
  <2>1. req[r].pc \in {"select token"}
    BY <1>9 DEF SelectToken, At
  <2>2. Looks(r, {"lock token"})
    BY <1>9 DEF SelectToken, Looks, Snapshot
  <2>4. Turn(r, {"select token"}, {"lock token"} \cup {"done"}) /\ db' = db
    BY <2>1, <2>2, LooksTurn
  <2> QED BY <2>4 DEF Turn
<1>10. ASSUME RevokeToken(r) PROVE Turn(r, {"revoke token"}, {"lock old token", "done"}) /\ db' = db
  <2>1. req[r].pc \in {"revoke token"}
    BY <1>10 DEF RevokeToken, At
  <2>2. Looks(r, {"lock old token"})
    BY <1>10 DEF RevokeToken, Looks, Snapshot
  <2>4. Turn(r, {"revoke token"}, {"lock old token"} \cup {"done"}) /\ db' = db
    BY <2>1, <2>2, LooksTurn
  <2> QED BY <2>4 DEF Turn
<1>11. ASSUME GetOrCreateAgentKey(r) PROVE Turn(r, {"lock token"}, {"new token", "done"}) /\ db' = db
  <2>1. req[r].pc \in {"lock token"}
    BY <1>11 DEF GetOrCreateAgentKey, At
  <2>2. \/ Answer(r, "ok") /\ db' = db
        \/ \E rows, got : Locking(r, rows, got, "new token")
    BY <1>11 DEF GetOrCreateAgentKey
  <2>3. CASE Answer(r, "ok") /\ db' = db
    BY <2>1, <2>3, AnswerTurn DEF Turn
  <2>4. ASSUME NEW rows, NEW got, Locking(r, rows, got, "new token")
        PROVE  Turn(r, {"lock token"}, {"new token"}) /\ db' = db
    BY <2>1, <2>4, LockTurn
  <2> QED BY <2>2, <2>3, <2>4 DEF Turn
<1>12. ASSUME RotateAgentKey(r) PROVE Turn(r, {"lock old token"}, {"new token", "done"}) /\ db' = db
  <2>1. req[r].pc \in {"lock old token"}
    BY <1>12 DEF RotateAgentKey, At
  <2>2. Looks(r, {"new token"})
    BY <1>12 DEF RotateAgentKey, Looks
  <2>4. Turn(r, {"lock old token"}, {"new token"} \cup {"done"}) /\ db' = db
    BY <2>1, <2>2, LooksTurn
  <2> QED BY <2>4 DEF Turn
<1>13. ASSUME NewToken(r) PROVE Turn(r, {"new token"}, {"done"})
  <2>1. req[r].pc \in {"new token"}
    BY <1>13 DEF NewToken, At
  <2>2. Writes(r)
    BY <1>13 DEF NewToken, Writes
  <2> QED BY <2>1, <2>2, WritesTurn
<1> QED BY <1>1, <1>2, <1>3, <1>4, <1>5, <1>6, <1>7, <1>8, <1>9, <1>10, <1>11, <1>12, <1>13

\* A page was shown, and the next is asked for or not.
LEMMA PagedTurn ==
  ASSUME NEW r, RequestShape(r), NEW shown, NEW cursor, NEW more, Paged(r, shown, cursor, more),
         req[r].pc \in {"page"}
  PROVE  Turn(r, {"page"}, {"authenticate", "done"}) /\ db' = db
<1>1. PICK e : e = [req[r] EXCEPT !.got.shown = @ \cup shown, !.got.cursor = cursor,
                                 !.pc = IF more THEN "authenticate" ELSE "done",
                                 !.answer = IF more THEN @ ELSE "ok"]
  OBVIOUS
<1>2. Becomes(r, e) /\ db' = db
  BY <1>1 DEF Paged
<1>3. /\ DOMAIN e = Fields
      /\ e.do = req[r].do /\ e.auth = req[r].auth /\ e.tx = req[r].tx /\ e.locks = req[r].locks
      /\ e.pc \in {"authenticate", "done"}
      /\ e.answer = IF e.pc = "done" THEN "ok" ELSE req[r].answer
  BY <1>1 DEF RequestShape, Fields
<1> QED BY <1>2, <1>3, MoveTurn

LEMMA EndPageTurn ==
  ASSUME NEW r, RequestShape(r), NEW got, NEW more, EndPage(r, got, more),
         NEW from, req[r].pc \in from, "done" \notin from
  PROVE  Turn(r, from, {"authenticate", "done"}) /\ db' = db
<1>1. PICK e : e = [req[r] EXCEPT !.got = [space |-> got.space, shown |-> got.shown],
                                 !.pc = IF more THEN "authenticate" ELSE "done",
                                 !.answer = IF more THEN @ ELSE "ok"]
  OBVIOUS
<1>2. Becomes(r, e) /\ db' = db
  BY <1>1 DEF EndPage
<1>3. /\ DOMAIN e = Fields
      /\ e.do = req[r].do /\ e.auth = req[r].auth /\ e.tx = req[r].tx /\ e.locks = req[r].locks
      /\ e.pc \in {"authenticate", "done"}
      /\ e.answer = IF e.pc = "done" THEN "ok" ELSE req[r].answer
  BY <1>1 DEF RequestShape, Fields
<1> QED BY <1>2, <1>3, MoveTurn

\* Conversations, messages and workspaces.
LEMMA MessageTurns ==
  ASSUME NEW r, RequestShape(r)
  PROVE  /\ LoadConversation(r) => Turn(r, {"patchRoom"}, {"update room", "done"}) /\ db' = db
         /\ PatchConversation(r) => Turn(r, {"update room"}, {"done"})
         /\ CheckPost(r) => Turn(r, {"post"}, {"insert message", "done"})
         /\ CreateMessageTx(r) => Turn(r, {"insert message"}, {"done"})
         /\ LoadMessage(r) => Turn(r, {"editMessage", "deleteMessage"}, {"edit", "delete", "done"}) /\ db' = db
         /\ PatchMessage(r) => Turn(r, {"edit"}, {"done"})
         /\ DeleteMessage(r) => Turn(r, {"delete"}, {"done"})
         /\ CheckRead(r) => Turn(r, {"putRead"}, {"mark read", "done"}) /\ db' = db
         /\ PutReadState(r) => Turn(r, {"mark read"}, {"done"})
         /\ CreateWorkspaceTx(r) => Turn(r, {"createWorkspace"}, {"done"})
         /\ PatchWorkspace(r) => Turn(r, {"patchWorkspace"}, {"done"})
<1>1. ASSUME LoadConversation(r) PROVE Turn(r, {"patchRoom"}, {"update room", "done"}) /\ db' = db
  <2>1. req[r].pc \in {"patchRoom"}
    BY <1>1 DEF LoadConversation, At
  <2>2. Looks(r, {"update room"})
    BY <1>1 DEF LoadConversation, Looks
  <2>4. Turn(r, {"patchRoom"}, {"update room"} \cup {"done"}) /\ db' = db
    BY <2>1, <2>2, LooksTurn
  <2> QED BY <2>4 DEF Turn
<1>2. ASSUME PatchConversation(r) PROVE Turn(r, {"update room"}, {"done"})
  <2>1. req[r].pc \in {"update room"}
    BY <1>2 DEF PatchConversation, At
  <2>2. Writes(r)
    BY <1>2 DEF PatchConversation, Writes
  <2> QED BY <2>1, <2>2, WritesTurn
<1>3. ASSUME CheckPost(r) PROVE Turn(r, {"post"}, {"insert message", "done"})
  <2>1. req[r].pc \in {"post"}
    BY <1>3 DEF CheckPost, At
  <2>2. CASE Refuse(r)
    BY <2>1, <2>2, RefuseTurn DEF Turn
  <2>3. CASE Becomes(r, [req[r] EXCEPT !.got = db.clock + 1, !.pc = "insert message"])
    <3>1. PICK e : e = [req[r] EXCEPT !.got = db.clock + 1, !.pc = "insert message"]
      OBVIOUS
    <3>2. Becomes(r, e)
      BY <2>3, <3>1
    <3>3. /\ DOMAIN e = Fields
          /\ e.do = req[r].do /\ e.auth = req[r].auth /\ e.tx = req[r].tx /\ e.locks = req[r].locks
          /\ e.pc \in {"insert message"}
          /\ e.answer = IF e.pc = "done" THEN "ok" ELSE req[r].answer
      BY <3>1 DEF RequestShape, Fields
    <3>4. Turn(r, {"post"}, {"insert message"})
      BY <2>1, <3>2, <3>3, MoveTurn
    <3> QED BY <3>4 DEF Turn
  <2> QED BY <1>3, <2>2, <2>3 DEF CheckPost
<1>4. ASSUME CreateMessageTx(r) PROVE Turn(r, {"insert message"}, {"done"})
  <2>1. req[r].pc \in {"insert message"}
    BY <1>4 DEF CreateMessageTx, At
  <2>2. Writes(r)
    BY <1>4 DEF CreateMessageTx, Writes
  <2> QED BY <2>1, <2>2, WritesTurn
<1>5. ASSUME LoadMessage(r) PROVE Turn(r, {"editMessage", "deleteMessage"}, {"edit", "delete", "done"}) /\ db' = db
  <2>1. req[r].pc \in {"editMessage", "deleteMessage"}
    BY <1>5 DEF LoadMessage, At
  <2>2. Looks(r, {"edit", "delete"})
    BY <1>5 DEF LoadMessage, Looks, At
  <2>4. Turn(r, {"editMessage", "deleteMessage"}, {"edit", "delete"} \cup {"done"}) /\ db' = db
    BY <2>1, <2>2, LooksTurn
  <2> QED BY <2>4 DEF Turn
<1>6. ASSUME PatchMessage(r) PROVE Turn(r, {"edit"}, {"done"})
  <2>1. req[r].pc \in {"edit"}
    BY <1>6 DEF PatchMessage, At
  <2>2. Writes(r)
    BY <1>6 DEF PatchMessage, Writes
  <2> QED BY <2>1, <2>2, WritesTurn
<1>7. ASSUME DeleteMessage(r) PROVE Turn(r, {"delete"}, {"done"})
  <2>1. req[r].pc \in {"delete"}
    BY <1>7 DEF DeleteMessage, At
  <2>2. Writes(r)
    BY <1>7 DEF DeleteMessage, Writes
  <2> QED BY <2>1, <2>2, WritesTurn
<1>8. ASSUME CheckRead(r) PROVE Turn(r, {"putRead"}, {"mark read", "done"}) /\ db' = db
  <2>1. req[r].pc \in {"putRead"}
    BY <1>8 DEF CheckRead, At
  <2>2. Looks(r, {"mark read"})
    BY <1>8 DEF CheckRead, Looks
  <2>4. Turn(r, {"putRead"}, {"mark read"} \cup {"done"}) /\ db' = db
    BY <2>1, <2>2, LooksTurn
  <2> QED BY <2>4 DEF Turn
<1>9. ASSUME PutReadState(r) PROVE Turn(r, {"mark read"}, {"done"})
  <2>1. req[r].pc \in {"mark read"}
    BY <1>9 DEF PutReadState, At
  <2>2. Writes(r)
    BY <1>9 DEF PutReadState, Writes
  <2> QED BY <2>1, <2>2, WritesTurn
<1>10. ASSUME CreateWorkspaceTx(r) PROVE Turn(r, {"createWorkspace"}, {"done"})
  <2>1. req[r].pc \in {"createWorkspace"}
    BY <1>10 DEF CreateWorkspaceTx, At
  <2>2. Writes(r)
    BY <1>10 DEF CreateWorkspaceTx, Writes
  <2> QED BY <2>1, <2>2, WritesTurn
<1>11. ASSUME PatchWorkspace(r) PROVE Turn(r, {"patchWorkspace"}, {"done"})
  <2>1. req[r].pc \in {"patchWorkspace"}
    BY <1>11 DEF PatchWorkspace, At
  <2>2. Writes(r)
    BY <1>11 DEF PatchWorkspace, Writes
  <2> QED BY <2>1, <2>2, WritesTurn
<1> QED BY <1>1, <1>2, <1>3, <1>4, <1>5, <1>6, <1>7, <1>8, <1>9, <1>10, <1>11

\* The reads and the subscriptions.
LEMMA ReadTurns ==
  ASSUME NEW r, RequestShape(r)
  PROVE  /\ Show(r) => Turn(r, ReadOps, {"done"}) /\ db' = db
         /\ CheckList(r) => Turn(r, ListOps, {"page", "done"}) /\ db' = db
         /\ ListMessages(r) => Turn(r, {"page"}, {"authenticate", "done"}) /\ db' = db
         /\ ListConversations(r) => Turn(r, {"page"}, {"authenticate", "done"}) /\ db' = db
         /\ ListEvents(r) => Turn(r, {"page"}, {"authenticate", "done"}) /\ db' = db
         /\ CheckSubscription(r) => Turn(r, {"createSub"}, {"insert sub", "done"}) /\ db' = db
         /\ CreateSubscription(r) => Turn(r, {"insert sub"}, {"done"})
         /\ SelectSubscription(r) => Turn(r, {"patchSub", "deleteSub"}, {"check sub", "done"}) /\ db' = db
         /\ CheckSubscriptionKey(r) => Turn(r, {"check sub"}, {"write sub"}) /\ db' = db
         /\ RefuseSubscriptionKey(r) => Turn(r, {"check sub"}, {"done"})
         /\ PatchSubscription(r) => Turn(r, {"write sub"}, {"done"})
         /\ DeleteSubscription(r) => Turn(r, {"write sub"}, {"done"})
<1>1. ASSUME Show(r) PROVE Turn(r, ReadOps, {"done"}) /\ db' = db
  <2>1. req[r].pc \in ReadOps
    BY <1>1 DEF Show, At, ReadOps
  <2>2. db' = db
    BY <1>1 DEF Show, Refuse
  <2>3. "done" \notin ReadOps
    BY DEF ReadOps
  <2>4. CASE Refuse(r)
    BY <2>1, <2>4, RefuseTurn
  <2>5. ASSUME NEW S, Becomes(r, [req[r] EXCEPT !.pc = "done", !.answer = "ok", !.got = [shown |-> S]])
        PROVE  Turn(r, ReadOps, {"done"})
    <3>1. PICK e : e = [req[r] EXCEPT !.pc = "done", !.answer = "ok", !.got = [shown |-> S]]
      OBVIOUS
    <3>2. Becomes(r, e)
      BY <2>5, <3>1
    <3>3. /\ DOMAIN e = Fields
          /\ e.do = req[r].do /\ e.auth = req[r].auth /\ e.tx = req[r].tx /\ e.locks = req[r].locks
          /\ e.pc \in {"done"}
          /\ e.answer = IF e.pc = "done" THEN "ok" ELSE req[r].answer
      BY <3>1 DEF RequestShape, Fields
    <3>4. Turn(r, ReadOps, {"done"})
      BY <2>1, <2>3, <3>2, <3>3, MoveTurn
    <3> QED BY <3>4 DEF Turn
  <2> QED BY <1>1, <2>2, <2>4, <2>5 DEF Show
<1>2. ASSUME CheckList(r) PROVE Turn(r, ListOps, {"page", "done"}) /\ db' = db
  <2>1. req[r].pc \in ListOps
    BY <1>2 DEF CheckList, At, ListOps
  <2>2. Looks(r, {"page"})
    BY <1>2 DEF CheckList, Looks
  <2>3. "done" \notin ListOps
    BY DEF ListOps
  <2>4. Turn(r, ListOps, {"page"} \cup {"done"}) /\ db' = db
    BY <2>1, <2>2, <2>3, LooksTurn
  <2> QED BY <2>4 DEF Turn
<1>3. ASSUME ListMessages(r) PROVE Turn(r, {"page"}, {"authenticate", "done"}) /\ db' = db
  <2>1. req[r].pc \in {"page"}
    BY <1>3 DEF ListMessages, At
  <2>2. PICK shown, cursor, more : Paged(r, shown, cursor, more)
    BY <1>3 DEF ListMessages, OffsetPage
  <2> QED BY <2>1, <2>2, PagedTurn
<1>4. ASSUME ListConversations(r) PROVE Turn(r, {"page"}, {"authenticate", "done"}) /\ db' = db
  <2>1. req[r].pc \in {"page"}
    BY <1>4 DEF ListConversations, At
  <2>2. PICK shown, cursor, more : Paged(r, shown, cursor, more)
    BY <1>4 DEF ListConversations, OffsetPage
  <2> QED BY <2>1, <2>2, PagedTurn
<1>5. ASSUME ListEvents(r) PROVE Turn(r, {"page"}, {"authenticate", "done"}) /\ db' = db
  <2>1. req[r].pc \in {"page"}
    BY <1>5 DEF ListEvents, At
  <2>2. PICK shown, cursor, more : Paged(r, shown, cursor, more)
    BY <1>5 DEF ListEvents
  <2> QED BY <2>1, <2>2, PagedTurn
<1>6. ASSUME CheckSubscription(r) PROVE Turn(r, {"createSub"}, {"insert sub", "done"}) /\ db' = db
  <2>1. req[r].pc \in {"createSub"}
    BY <1>6 DEF CheckSubscription, At
  <2>2. Looks(r, {"insert sub"})
    BY <1>6 DEF CheckSubscription, Looks
  <2>4. Turn(r, {"createSub"}, {"insert sub"} \cup {"done"}) /\ db' = db
    BY <2>1, <2>2, LooksTurn
  <2> QED BY <2>4 DEF Turn
<1>7. ASSUME CreateSubscription(r) PROVE Turn(r, {"insert sub"}, {"done"})
  <2>1. req[r].pc \in {"insert sub"}
    BY <1>7 DEF CreateSubscription, At
  <2>2. Writes(r)
    BY <1>7 DEF CreateSubscription, Writes
  <2> QED BY <2>1, <2>2, WritesTurn
<1>8. ASSUME SelectSubscription(r) PROVE Turn(r, {"patchSub", "deleteSub"}, {"check sub", "done"}) /\ db' = db
  <2>1. req[r].pc \in {"patchSub", "deleteSub"}
    BY <1>8 DEF SelectSubscription, At
  <2>2. Looks(r, {"check sub"})
    BY <1>8 DEF SelectSubscription, Looks
  <2>4. Turn(r, {"patchSub", "deleteSub"}, {"check sub"} \cup {"done"}) /\ db' = db
    BY <2>1, <2>2, LooksTurn
  <2> QED BY <2>4 DEF Turn
<1>9. ASSUME CheckSubscriptionKey(r) PROVE Turn(r, {"check sub"}, {"write sub"}) /\ db' = db
  <2>1. req[r].pc \in {"check sub"}
    BY <1>9 DEF CheckSubscriptionKey, At
  <2>2. PICK e : e = [req[r] EXCEPT !.pc = "write sub"]
    OBVIOUS
  <2>3. Becomes(r, e) /\ db' = db
    BY <1>9, <2>2 DEF CheckSubscriptionKey
  <2>4. /\ DOMAIN e = Fields
        /\ e.do = req[r].do /\ e.auth = req[r].auth /\ e.tx = req[r].tx /\ e.locks = req[r].locks
        /\ e.pc \in {"write sub"}
        /\ e.answer = IF e.pc = "done" THEN "ok" ELSE req[r].answer
    BY <2>2 DEF RequestShape, Fields
  <2> QED BY <2>1, <2>3, <2>4, MoveTurn
<1>10. ASSUME RefuseSubscriptionKey(r) PROVE Turn(r, {"check sub"}, {"done"})
  <2>1. req[r].pc \in {"check sub"}
    BY <1>10 DEF RefuseSubscriptionKey, At
  <2>2. Writes(r)
    BY <1>10 DEF RefuseSubscriptionKey, Writes
  <2> QED BY <2>1, <2>2, WritesTurn
<1>11. ASSUME PatchSubscription(r) PROVE Turn(r, {"write sub"}, {"done"})
  <2>1. req[r].pc \in {"write sub"}
    BY <1>11 DEF PatchSubscription, At
  <2>2. Writes(r)
    BY <1>11 DEF PatchSubscription, Writes
  <2> QED BY <2>1, <2>2, WritesTurn
<1>12. ASSUME DeleteSubscription(r) PROVE Turn(r, {"write sub"}, {"done"})
  <2>1. req[r].pc \in {"write sub"}
    BY <1>12 DEF DeleteSubscription, At
  <2>2. Writes(r)
    BY <1>12 DEF DeleteSubscription, Writes
  <2> QED BY <2>1, <2>2, WritesTurn
<1> QED BY <1>1, <1>2, <1>3, <1>4, <1>5, <1>6, <1>7, <1>8, <1>9, <1>10, <1>11, <1>12

\* The candidates of a page are among those the search may find.
Looking(r, found) ==
  LET all == Cardinality(Keys(found))
      looked == IF all <= HydrateFactor * Limit THEN all ELSE HydrateFactor * Limit
  IN [space |-> Got(r).space, shown |-> Got(r).shown, found |-> found, left |-> looked, hits |-> 0, all |-> all]

LEMMA AnswersAre ==
  ASSUME NEW docs, NEW found \in Answers(docs)
  PROVE  /\ found \subseteq docs
         /\ Crowded(docs) = {} => found = docs
         /\ \A d \in Crowded(docs) : Cardinality(Sharing(found, d)) \in TargetLimit .. 2 * TargetLimit
<1>1. PICK crowded : crowded = Crowded(docs)
  OBVIOUS
<1>2. PICK out \in SUBSET crowded : found = docs \ out
  BY <1>1 DEF Answers
<1>3. \A d \in crowded : Cardinality(Sharing(found, d)) \in TargetLimit .. 2 * TargetLimit
  BY <1>1 DEF Answers
<1>4. found \subseteq docs /\ (crowded = {} => found = docs)
  BY <1>2
<1> QED BY <1>1, <1>3, <1>4

LEMMA CandidatesFound ==
  ASSUME NEW r, QueryCandidates(r)
  PROVE  \E found \in Answers(BuildSearchFilter(r, Got(r).principals)) :
           \/ found = {} /\ EndPage(r, Got(r), FALSE)
           \/ /\ found # {}
              /\ Becomes(r, [req[r] EXCEPT !.pc = "hydrate", !.got = Looking(r, found)]) /\ db' = db
BY DEF QueryCandidates, Looking

\* A search.
LEMMA SearchTurns ==
  ASSUME NEW r, RequestShape(r)
  PROVE  /\ StartSearch(r) => Turn(r, {"search"}, {"principals", "done"}) /\ db' = db
         /\ ReadPrincipals(r) => Turn(r, {"principals"}, {"candidates", "done"}) /\ db' = db
         /\ QueryCandidates(r) => Turn(r, {"candidates"}, {"done", "authenticate", "hydrate"}) /\ db' = db
         /\ Hydrate(r) => Turn(r, {"hydrate"}, {"hydrate", "done"}) /\ db' = db
         /\ FinishSearch(r) => Turn(r, {"hydrate"}, {"authenticate", "done"}) /\ db' = db
<1>1. ASSUME StartSearch(r) PROVE Turn(r, {"search"}, {"principals", "done"}) /\ db' = db
  <2>1. req[r].pc \in {"search"}
    BY <1>1 DEF StartSearch, At
  <2>2. Looks(r, {"principals"})
    BY <1>1 DEF StartSearch, Looks
  <2>4. Turn(r, {"search"}, {"principals"} \cup {"done"}) /\ db' = db
    BY <2>1, <2>2, LooksTurn
  <2> QED BY <2>4 DEF Turn
<1>2. ASSUME ReadPrincipals(r) PROVE Turn(r, {"principals"}, {"candidates", "done"}) /\ db' = db
  <2>1. req[r].pc \in {"principals"}
    BY <1>2 DEF ReadPrincipals, At
  <2>2. Looks(r, {"candidates"})
    BY <1>2 DEF ReadPrincipals, Looks
  <2>4. Turn(r, {"principals"}, {"candidates"} \cup {"done"}) /\ db' = db
    BY <2>1, <2>2, LooksTurn
  <2> QED BY <2>4 DEF Turn
<1>3. ASSUME QueryCandidates(r) PROVE Turn(r, {"candidates"}, {"done", "authenticate", "hydrate"}) /\ db' = db
  <2>1. req[r].pc \in {"candidates"}
    BY <1>3 DEF QueryCandidates, At
  <2>2. \/ EndPage(r, Got(r), FALSE)
        \/ \E got : Becomes(r, [req[r] EXCEPT !.pc = "hydrate", !.got = got]) /\ db' = db
    BY <1>3, CandidatesFound
  <2>3. CASE EndPage(r, Got(r), FALSE)
    BY <2>1, <2>3, EndPageTurn DEF Turn
  <2>4. ASSUME NEW got, Becomes(r, [req[r] EXCEPT !.pc = "hydrate", !.got = got]), db' = db
        PROVE  Turn(r, {"candidates"}, {"done", "authenticate", "hydrate"}) /\ db' = db
    <3>1. PICK e : e = [req[r] EXCEPT !.pc = "hydrate", !.got = got]
      OBVIOUS
    <3>2. Becomes(r, e)
      BY <2>4, <3>1
    <3>3. /\ DOMAIN e = Fields
          /\ e.do = req[r].do /\ e.auth = req[r].auth /\ e.tx = req[r].tx /\ e.locks = req[r].locks
          /\ e.pc \in {"hydrate"}
          /\ e.answer = IF e.pc = "done" THEN "ok" ELSE req[r].answer
      BY <3>1 DEF RequestShape, Fields
    <3>4. Turn(r, {"candidates"}, {"hydrate"})
      BY <2>1, <3>2, <3>3, MoveTurn
    <3> QED BY <2>4, <3>4 DEF Turn
  <2> QED BY <2>2, <2>3, <2>4
<1>4. ASSUME Hydrate(r) PROVE Turn(r, {"hydrate"}, {"hydrate", "done"}) /\ db' = db
  <2>1. req[r].pc \in {"hydrate"}
    BY <1>4 DEF Hydrate, At
  <2>2. Looks(r, {"hydrate"})
    BY <1>4 DEF Hydrate, Looks
  <2>4. Turn(r, {"hydrate"}, {"hydrate"} \cup {"done"}) /\ db' = db
    BY <2>1, <2>2, LooksTurn
  <2> QED BY <2>4 DEF Turn
<1>5. ASSUME FinishSearch(r) PROVE Turn(r, {"hydrate"}, {"authenticate", "done"}) /\ db' = db
  <2>1. req[r].pc \in {"hydrate"}
    BY <1>5 DEF FinishSearch, At
  <2>2. PICK got, more : EndPage(r, got, more)
    BY <1>5 DEF FinishSearch
  <2> QED BY <2>1, <2>2, EndPageTurn
<1> QED BY <1>1, <1>2, <1>3, <1>4, <1>5

-----------------------------------------------------------------------------
(***************************************************************************)
(* What a step keeps of the tables.                                        *)
(***************************************************************************)

\* The rows there were stay, and those that are new are named after requests in new.
Grown(new) ==
  /\ IsTables(db') /\ References(db')
  /\ \A t \in NamedByRequest : DOMAIN db'[t] \subseteq DOMAIN db[t] \cup new
  /\ \A u \in DOMAIN db.user : u \in DOMAIN db'.user /\ db'.user[u].email = db.user[u].email
  /\ \A c \in DOMAIN db.challenge : c \in DOMAIN db'.challenge /\ db'.challenge[c].email = db.challenge[c].email
  /\ \A t \in DOMAIN db.token : t \in DOMAIN db'.token /\ db'.token[t].agent = db.token[t].agent
  /\ DOMAIN db.agent \subseteq DOMAIN db'.agent /\ DOMAIN db.room \subseteq DOMAIN db'.room

\* No session is opened and no code used.
SessionsKept ==
  /\ DOMAIN db'.session = DOMAIN db.session
  /\ \A s \in DOMAIN db.session :
       db'.session[s].user = db.session[s].user /\ db'.session[s].by = db.session[s].by
  /\ \A c \in DOMAIN db.challenge : db'.challenge[c].used = db.challenge[c].used

\* No account is linked, and a new user has no address.
UsersKept ==
  /\ db'.account = db.account
  /\ \A u \in DOMAIN db'.user \ DOMAIN db.user : db'.user[u].email = None

\* No agent is made, and no key of one.
AgentsKept == DOMAIN db'.agent = DOMAIN db.agent /\ db'.token = db.token

\* Only who has locked a code uses it.
UsesOwn(r) == \A c \in DOMAIN db.challenge :
  db'.challenge[c].used => db.challenge[c].used \/ <<"challenge", c>> \in req[r].locks

\* Rows are rewritten, none is inserted.
Rewrites ==
  /\ DOMAIN db' = TableNames
  /\ DOMAIN db'.user = DOMAIN db.user /\ DOMAIN db'.challenge = DOMAIN db.challenge
  /\ DOMAIN db'.session = DOMAIN db.session /\ DOMAIN db'.key = DOMAIN db.key
  /\ DOMAIN db'.agent = DOMAIN db.agent /\ DOMAIN db'.space = DOMAIN db.space
  /\ DOMAIN db'.member = DOMAIN db.member /\ DOMAIN db'.room = DOMAIN db.room
  /\ DOMAIN db'.message = DOMAIN db.message /\ DOMAIN db'.sub \subseteq DOMAIN db.sub
  /\ db'.token = db.token /\ db'.account = db.account /\ db'.seat \subseteq db.seat
  /\ \A u \in DOMAIN db.user :
       DOMAIN db'.user[u] = DOMAIN db.user[u] /\ db'.user[u].email = db.user[u].email
  /\ \A c \in DOMAIN db.challenge :
       /\ DOMAIN db'.challenge[c] = DOMAIN db.challenge[c]
       /\ db'.challenge[c].email = db.challenge[c].email /\ db'.challenge[c].used = db.challenge[c].used
  /\ \A s \in DOMAIN db.session :
       /\ DOMAIN db'.session[s] = DOMAIN db.session[s]
       /\ db'.session[s].user = db.session[s].user /\ db'.session[s].by = db.session[s].by
  /\ \A k \in DOMAIN db.key :
       DOMAIN db'.key[k] = DOMAIN db.key[k] /\ db'.key[k].user = db.key[k].user
  /\ \A a \in DOMAIN db.agent : DOMAIN db'.agent[a] = DOMAIN db.agent[a]
  /\ \A c \in DOMAIN db.room :
       DOMAIN db'.room[c] = DOMAIN db.room[c] /\ db'.room[c].space = db.room[c].space
  /\ \A m \in DOMAIN db.message :
       DOMAIN db'.message[m] = DOMAIN db.message[m] /\ db'.message[m].room = db.message[m].room
  /\ \A s \in DOMAIN db'.sub : DOMAIN db'.sub[s] = DOMAIN db.sub[s]

LEMMA RewritesKeep ==
  ASSUME IsTables(db), References(db), Rewrites
  PROVE  Grown({}) /\ SessionsKept /\ UsersKept /\ AgentsKept
<1>1. IsTables(db')
  BY DEF IsTables, Rewrites
<1>2. References(db')
  BY DEF References, Rewrites
<1>3. \A t \in NamedByRequest : DOMAIN db'[t] \subseteq DOMAIN db[t] \cup {}
  BY DEF NamedByRequest, Rewrites
<1>4. SessionsKept /\ UsersKept /\ AgentsKept
  BY DEF SessionsKept, UsersKept, AgentsKept, Rewrites
<1> QED BY <1>1, <1>2, <1>3, <1>4 DEF Grown, Rewrites

LEMMA SameRewrites == ASSUME IsTables(db), db' = db PROVE Rewrites
BY DEF Rewrites, IsTables

LEMMA SessionsKeptOK ==
  ASSUME Inv, NEW new, new \subseteq Request, Grown(new), SessionsKept
  PROVE  CodesOK'
<1>1. SUFFICES ASSUME NEW s \in DOMAIN db'.session, NEW c \in DOMAIN db'.challenge, db'.session[s].by = <<"code", c>>
      PROVE  /\ db'.challenge[c].used
             /\ \A t \in DOMAIN db'.session : db'.session[t].by = <<"code", c>> => t = s
  BY DEF CodesOK
<1>2. s \in DOMAIN db.session /\ db.session[s].by = <<"code", c>>
  BY <1>1 DEF SessionsKept
<1>3. c \in DOMAIN db.challenge
  <2>1. c \in DOMAIN db.challenge \cup new
    BY DEF Grown, NamedByRequest
  <2>2. c \in Request => None # <<"code", c>>
    BY NoneAssumption
  <2>3. \/ db.session[s].by = None
        \/ \E d \in DOMAIN db.challenge : db.session[s].by = <<"code", d>>
        \/ \E who : db.session[s].by = <<"account", who>>
    BY <1>2 DEF Inv, PeopleOK
  <2> QED BY <1>2, <2>1, <2>2, <2>3
<1>4. db.challenge[c].used /\ \A t \in DOMAIN db.session : db.session[t].by = <<"code", c>> => t = s
  BY <1>2, <1>3 DEF Inv, CodesOK
<1> QED BY <1>3, <1>4 DEF SessionsKept

LEMMA UsersKeptOK ==
  ASSUME Inv, NEW new, Grown(new), SessionsKept, UsersKept
  PROVE  PeopleOK'
<1>1. \A u, v \in DOMAIN db'.user : db'.user[u].email # None /\ db'.user[u].email = db'.user[v].email => u = v
  BY DEF Inv, PeopleOK, Grown, UsersKept
<1>2. \A u \in DOMAIN db'.user : db'.user[u].email \in Request => db'.user[u].email = u
  BY NoneAssumption DEF Inv, PeopleOK, Grown, UsersKept
<1>3. \A who \in DOMAIN db'.account :
        EmailOf[who] # None => db'.user[db'.account[who]].email = EmailOf[who]
  BY DEF Inv, PeopleOK, Grown, UsersKept, References
<1>4. ASSUME NEW s \in DOMAIN db'.session
      PROVE  /\ \/ db'.session[s].by = None
                \/ \E c \in DOMAIN db'.challenge : db'.session[s].by = <<"code", c>>
                \/ \E who : db'.session[s].by = <<"account", who>>
             /\ Person(db.session[s].by)' # None
                  => db'.user[db'.session[s].user].email = Person(db.session[s].by)'
  <2>1. /\ s \in DOMAIN db.session /\ db'.session[s].by = db.session[s].by
        /\ db'.session[s].user = db.session[s].user
    BY <1>4 DEF SessionsKept
  <2>2. db.session[s].user \in DOMAIN db.user
    BY <2>1 DEF Inv, References
  <2>3. /\ \/ db.session[s].by = None
           \/ \E c \in DOMAIN db.challenge : db.session[s].by = <<"code", c>>
           \/ \E who : db.session[s].by = <<"account", who>>
        /\ Person(db.session[s].by) # None => db.user[db.session[s].user].email = Person(db.session[s].by)
    BY <2>1 DEF Inv, PeopleOK
  <2>4. Person(db.session[s].by)' = Person(db.session[s].by)
    <3>1. PICK by : by = db.session[s].by
      OBVIOUS
    <3>2. Person(db.session[s].by)' = (IF by = None THEN None
            ELSE IF by[1] = "code" THEN db'.challenge[by[2]].email ELSE EmailOf[by[2]])
      BY <2>1, <3>1 DEF Person
    <3>3. Person(db.session[s].by) = (IF by = None THEN None
            ELSE IF by[1] = "code" THEN db.challenge[by[2]].email ELSE EmailOf[by[2]])
      BY <3>1 DEF Person
    <3>4. by = None \/ (\E c \in DOMAIN db.challenge : by = <<"code", c>>) \/ (\E who : by = <<"account", who>>)
      BY <2>3, <3>1
    <3>5. \A c \in DOMAIN db.challenge : db'.challenge[c].email = db.challenge[c].email
      BY DEF Grown
    <3>6. CASE by = None
      BY <3>2, <3>3, <3>6
    <3>7. ASSUME NEW c \in DOMAIN db.challenge, by = <<"code", c>>
          PROVE  Person(db.session[s].by)' = Person(db.session[s].by)
      BY <3>2, <3>3, <3>5, <3>7
    <3>8. ASSUME NEW who, by = <<"account", who>>
          PROVE  Person(db.session[s].by)' = Person(db.session[s].by)
      BY <3>2, <3>3, <3>8
    <3> QED BY <3>4, <3>6, <3>7, <3>8
  <2>5. db'.user[db'.session[s].user].email = db.user[db.session[s].user].email
    BY <2>1, <2>2 DEF Grown
  <2>6. \/ db'.session[s].by = None
        \/ \E c \in DOMAIN db'.challenge : db'.session[s].by = <<"code", c>>
        \/ \E who : db'.session[s].by = <<"account", who>>
    BY <2>1, <2>3 DEF Grown
  <2> QED BY <2>3, <2>4, <2>5, <2>6
<1> QED BY <1>1, <1>2, <1>3, <1>4 DEF PeopleOK

LEMMA AgentsKeptOK == ASSUME Inv, AgentsKept PROVE KeysOK'
BY DEF Inv, KeysOK, AgentsKept, LiveTokens

-----------------------------------------------------------------------------
(***************************************************************************)
(* What a step of one request leaves of the invariant to be shown.         *)
(***************************************************************************)

LEMMA OthersKeep ==
  ASSUME Inv, NEW r \in Request, NEW q \in Request, q # r, req' = [req EXCEPT ![r] = req'[r]],
         req[r].pc # "done", scene' = scene, NEW new, Grown(new), UsesOwn(r),
         req'[r].pc = "done" \/ (db'.user = db.user /\ db'.room = db.room)
  PROVE  RequestOK(q)' /\ StepOK(q)'
<1>1. req'[q] = req[q]
  BY DEF Inv
<1>2. RequestOK(q) /\ StepOK(q) /\ DOMAIN req = Request
  BY DEF Inv
<1>3. RequestOK(q)'
  <2>1. DOMAIN db.user \subseteq DOMAIN db'.user
    BY DEF Grown
  <2> QED BY <1>1, <1>2, <2>1 DEF RequestOK, At, Do, Caller
<1>4. SignInOK(q)'
  <2>1. ASSUME NEW c \in DOMAIN db.challenge, <<"challenge", c>> \in req[q].locks, ~db.challenge[c].used
        PROVE  ~db'.challenge[c].used
    <3>1. req[q].locks \cap req[r].locks = {}
      BY DEF Inv, LocksApart
    <3> QED BY <2>1, <3>1 DEF UsesOwn
  <2>2. SignInOK(q)
    BY <1>2 DEF StepOK
  <2>3. \A c \in DOMAIN db.challenge : c \in DOMAIN db'.challenge /\ db'.challenge[c].email = db.challenge[c].email
    BY DEF Grown
  <2>4. \A u \in DOMAIN db.user : u \in DOMAIN db'.user /\ db'.user[u].email = db.user[u].email
    BY DEF Grown
  <2> QED BY <1>1, <2>1, <2>2, <2>3, <2>4 DEF SignInOK, SignInSteps, At, Do, Got
<1>5. CallbackOK(q)'
  BY <1>1, <1>2 DEF StepOK, CallbackOK, At, Do, Got, Grown
<1>6. Answered \subseteq Answered' /\ (req'[r].pc = "done" => r \in Answered' /\ r \notin Answered)
  BY <1>2 DEF Answered, At
<1>7. AgentOK(q)'
  <2>1. AgentOK(q) /\ DOMAIN db.agent \subseteq DOMAIN db'.agent
    BY <1>2 DEF StepOK, Grown
  <2>2. \A t \in DOMAIN db.token : t \in DOMAIN db'.token /\ db'.token[t].agent = db.token[t].agent
    BY DEF Grown
  <2>3. CASE req'[r].pc = "done"
    BY <1>1, <1>6, <2>1, <2>2, <2>3 DEF AgentOK, At, Do, Got
  <2>4. CASE db'.user = db.user
    BY <1>1, <1>6, <2>1, <2>2, <2>4 DEF AgentOK, At, Do, Got
  <2> QED BY <2>3, <2>4
<1>8. RoomOK(q)'
  <2>1. RoomOK(q) /\ DOMAIN db.room \subseteq DOMAIN db'.room
    BY <1>2 DEF StepOK, Grown
  <2>3. CASE req'[r].pc = "done"
    BY <1>1, <1>6, <2>1, <2>3 DEF RoomOK, At, Do, Got
  <2>4. CASE db'.room = db.room
    BY <1>1, <1>6, <2>1, <2>4 DEF RoomOK, At, Do, Got
  <2> QED BY <2>3, <2>4
<1> QED BY <1>3, <1>4, <1>5, <1>7, <1>8 DEF StepOK

LEMMA StepInv ==
  ASSUME Inv, NEW r \in Request, req' = [req EXCEPT ![r] = req'[r]], req[r].pc # "done",
         scene' = scene, churn' = churn,
         \A row \in req'[r].locks : row \in req[r].locks \/ Free(r, row),
         NEW new, Grown(new), new = {} \/ (new = {r} /\ req'[r].pc \in {"done", "send code"}),
         req[r].pc = "send code" => req'[r].pc = "done",
         UsesOwn(r), CodesOK', PeopleOK', KeysOK',
         req'[r].pc = "done" \/ (db'.user = db.user /\ db'.room = db.room),
         RequestOK(r)', StepOK(r)'
  PROVE  Inv'
<1>1. DOMAIN req' = Request /\ \A q \in Request : q # r => req'[q] = req[q]
  BY DEF Inv
<1>2. scene' \in DOMAIN Scenes /\ churn' \subseteq Here'.churn
  BY DEF Inv, Here
<1>3. IsTables(db') /\ References(db')
  BY DEF Grown
<1>4. \A q \in Request : RequestOK(q)' /\ StepOK(q)'
  <2>1. ASSUME NEW q \in Request, q # r
        PROVE  RequestOK(q)' /\ StepOK(q)'
    BY <2>1, OthersKeep
  <2> QED BY <2>1
<1>5. Fresh'
  <2>1. SUFFICES ASSUME NEW q \in Request, req'[q].pc \notin {"done", "send code"}, NEW t \in NamedByRequest
        PROVE  q \notin DOMAIN db'[t]
    BY DEF Fresh
  <2>2. req[q].pc \notin {"done", "send code"}
    BY <1>1, <2>1
  <2>3. q \notin DOMAIN db[t]
    BY <2>2 DEF Inv, Fresh
  <2>4. DOMAIN db'[t] \subseteq DOMAIN db[t] \cup new /\ q \notin new
    BY <2>1 DEF Grown
  <2> QED BY <2>3, <2>4
<1>6. LocksApart'
  <2>1. ASSUME NEW p \in Request, NEW q \in Request, p # q
        PROVE  req'[p].locks \cap req'[q].locks = {}
    <3>1. req[p].locks \cap req[q].locks = {}
      BY <2>1 DEF Inv, LocksApart
    <3>2. CASE p # r /\ q # r
      BY <1>1, <3>1, <3>2
    <3>3. CASE p = r
      <4>1. req'[q].locks = req[q].locks
        BY <1>1, <2>1, <3>3
      <4>2. \A row \in req'[r].locks : row \in req[r].locks \/ row \notin req[q].locks
        BY <2>1, <3>3 DEF Free
      <4> QED BY <3>1, <3>3, <4>1, <4>2
    <3>4. CASE q = r
      <4>1. req'[p].locks = req[p].locks
        BY <1>1, <2>1, <3>4
      <4>2. \A row \in req'[r].locks : row \in req[r].locks \/ row \notin req[p].locks
        BY <2>1, <3>4 DEF Free
      <4> QED BY <3>1, <3>4, <4>1, <4>2
    <3> QED BY <3>2, <3>3, <3>4
  <2> QED BY <2>1 DEF LocksApart
<1> QED BY <1>1, <1>2, <1>3, <1>4, <1>5, <1>6 DEF Inv

\* A turn to a step that is not the first of a handler.
LEMMA TurnRequest ==
  ASSUME Inv, NEW r \in Request, NEW from, NEW to, Turn(r, from, to), "new" \notin from,
         to \subseteq Steps \ {"new"}, NEW new, Grown(new)
  PROVE  RequestOK(r)'
<1>1. RequestOK(r) /\ req[r].pc # "new"
  BY DEF Inv, Turn
<1>2. /\ DOMAIN req'[r] = Fields /\ req'[r].do = req[r].do /\ req'[r].auth = req[r].auth
      /\ req'[r].pc \in Steps /\ req'[r].pc # "new"
      /\ req'[r].answer \in {None, "ok", "refused", "error"}
      /\ req'[r].answer # None <=> req'[r].pc = "done"
      /\ req'[r].locks # {} => req'[r].tx
  BY DEF Turn
<1>3. DOMAIN db.user \subseteq DOMAIN db'.user
  BY DEF Grown
<1> QED BY <1>1, <1>2, <1>3 DEF RequestOK, At, Do, Caller

\* Where what was found does not matter any more, or does not matter yet.
PlainSteps == {"done", "authenticate", "send code", "revoke key", "edit", "delete", "mark read", "page",
  "insert sub", "check sub", "write sub", "principals", "candidates", "hydrate"}
LEMMA PlainStep == ASSUME NEW r, req'[r].pc \in PlainSteps PROVE StepOK(r)'
BY DEF PlainSteps, StepOK, SignInOK, SignInSteps, CallbackOK, CallbackSteps, AgentOK, TokenSteps, RoomOK, At

\* A request ends, with or without a write.
LEMMA EndInv ==
  ASSUME Inv, NEW r \in Request, NEW from, Turn(r, from, {"done"}), from \cap {"new", "done"} = {},
         scene' = scene, churn' = churn,
         NEW new, Grown(new), new \subseteq {r}, UsesOwn(r), CodesOK', PeopleOK', KeysOK'
  PROVE  Inv'
<1>1. req'[r].pc = "done" /\ req' = [req EXCEPT ![r] = req'[r]] /\ req[r].pc \notin {"new", "done"}
  BY DEF Turn
<1>2. \A row \in req'[r].locks : row \in req[r].locks \/ Free(r, row)
  BY DEF Turn
<1>3. StepOK(r)'
  <2>1. req'[r].pc \in PlainSteps
    BY <1>1 DEF PlainSteps
  <2> QED BY <2>1, PlainStep
<1>4. RequestOK(r)'
  <2>1. "new" \notin from /\ {"done"} \subseteq Steps \ {"new"}
    BY DEF Steps
  <2> QED BY <2>1, TurnRequest
<1>5. new = {} \/ (new = {r} /\ req'[r].pc \in {"done", "send code"})
  BY <1>1
<1> QED BY <1>1, <1>2, <1>3, <1>4, <1>5, StepInv

LEMMA UsedKept == ASSUME SessionsKept, NEW r PROVE UsesOwn(r)
BY DEF SessionsKept, UsesOwn

LEMMA RewriteInv ==
  ASSUME Inv, NEW r \in Request, NEW from, Turn(r, from, {"done"}), from \cap {"new", "done"} = {},
         scene' = scene, churn' = churn, Rewrites
  PROVE  Inv'
<1>1. Grown({}) /\ SessionsKept /\ UsersKept /\ AgentsKept
  BY RewritesKeep DEF Inv
<1>2. CodesOK' /\ PeopleOK' /\ KeysOK' /\ UsesOwn(r)
  <2>1. {} \subseteq Request
    OBVIOUS
  <2>2. CodesOK'
    BY <1>1, <2>1, SessionsKeptOK
  <2>3. PeopleOK'
    BY <1>1, UsersKeptOK
  <2> QED BY <1>1, <2>2, <2>3, AgentsKeptOK, UsedKept
<1>3. {} \subseteq {r}
  OBVIOUS
<1> QED BY <1>1, <1>2, <1>3, EndInv

\* A request goes on to a further step.
LEMMA LookInv ==
  ASSUME Inv, NEW r \in Request, NEW from, NEW to, Turn(r, from, to),
         from \cap {"new", "done", "send code"} = {}, to \subseteq Steps \ {"new"},
         Rewrites, db'.user = db.user, db'.room = db.room, scene' = scene, churn' = churn, StepOK(r)'
  PROVE  Inv'
<1>1. Grown({}) /\ SessionsKept /\ UsersKept /\ AgentsKept
  BY RewritesKeep DEF Inv
<1>2. CodesOK' /\ PeopleOK' /\ KeysOK' /\ UsesOwn(r)
  <2>1. {} \subseteq Request
    OBVIOUS
  <2>2. CodesOK'
    BY <1>1, <2>1, SessionsKeptOK
  <2>3. PeopleOK'
    BY <1>1, UsersKeptOK
  <2> QED BY <1>1, <2>2, <2>3, AgentsKeptOK, UsedKept
<1>3. RequestOK(r)'
  <2>1. "new" \notin from
    OBVIOUS
  <2> QED BY <1>1, <2>1, TurnRequest
<1>4. req' = [req EXCEPT ![r] = req'[r]] /\ req[r].pc \notin {"new", "done", "send code"}
  BY DEF Turn
<1>5. \A row \in req'[r].locks : row \in req[r].locks \/ Free(r, row)
  BY DEF Turn
<1>6. \/ req'[r].pc = "done"
      \/ db'.user = db.user /\ db'.room = db.room
  OBVIOUS
<1>7. {} = {} \/ ({} = {r} /\ req'[r].pc \in {"done", "send code"})
  OBVIOUS
<1>8. req[r].pc = "send code" => req'[r].pc = "done"
  BY <1>4
<1>9. req[r].pc # "done"
  BY <1>4
<1> QED BY <1>1, <1>2, <1>3, <1>4, <1>5, <1>6, <1>7, <1>8, <1>9, StepInv

LEMMA ReadInv ==
  ASSUME Inv, NEW r \in Request, NEW from, NEW to, Turn(r, from, to) /\ db' = db,
         from \cap {"new", "done", "send code"} = {}, to \subseteq Steps \ {"new"},
         scene' = scene, churn' = churn, StepOK(r)'
  PROVE  Inv'
<1>1. Rewrites /\ db'.user = db.user /\ db'.room = db.room
  BY SameRewrites DEF Inv
<1> QED BY <1>1, LookInv

LEMMA PlainInv ==
  ASSUME Inv, NEW r \in Request, NEW from, NEW to, Turn(r, from, to) /\ db' = db,
         from \cap {"new", "done", "send code"} = {}, to \subseteq PlainSteps,
         scene' = scene, churn' = churn
  PROVE  Inv'
<1>1. StepOK(r)'
  BY PlainStep DEF Turn
<1>2. to \subseteq Steps \ {"new"}
  BY DEF PlainSteps, Steps
<1> QED BY <1>1, <1>2, ReadInv

LEMMA ShapeOK == ASSUME Inv, NEW r \in Request PROVE RequestShape(r)
BY DEF Inv, RequestOK, RequestShape

-----------------------------------------------------------------------------
(***************************************************************************)
(* Each step of a request keeps the invariant.                             *)
(***************************************************************************)

\* Steps that only read, and whose findings no other rests on.
LEMMA ReadersInv ==
  ASSUME Inv, NEW r \in Request, scene' = scene, churn' = churn
  PROVE  /\ FindKey(r) => Inv'
         /\ LoadMessage(r) => Inv'
         /\ CheckRead(r) => Inv'
         /\ Show(r) => Inv'
         /\ CheckList(r) => Inv'
         /\ ListMessages(r) => Inv'
         /\ ListConversations(r) => Inv'
         /\ ListEvents(r) => Inv'
         /\ CheckSubscription(r) => Inv'
         /\ SelectSubscription(r) => Inv'
         /\ CheckSubscriptionKey(r) => Inv'
         /\ StartSearch(r) => Inv'
         /\ ReadPrincipals(r) => Inv'
         /\ QueryCandidates(r) => Inv'
         /\ Hydrate(r) => Inv'
         /\ FinishSearch(r) => Inv'
<1>0. RequestShape(r)
  BY ShapeOK
<1>1. ASSUME FindKey(r) PROVE Inv'
  <2>1. Turn(r, {"deleteKey"}, {"revoke key", "done"}) /\ db' = db
    BY <1>0, <1>1, AccountTurns
  <2>2. {"deleteKey"} \cap {"new", "done", "send code"} = {} /\ {"revoke key", "done"} \subseteq PlainSteps
    BY DEF PlainSteps
  <2> QED BY <2>1, <2>2, PlainInv
<1>2. ASSUME LoadMessage(r) PROVE Inv'
  <2>1. Turn(r, {"editMessage", "deleteMessage"}, {"edit", "delete", "done"}) /\ db' = db
    BY <1>0, <1>2, MessageTurns
  <2>2. {"editMessage", "deleteMessage"} \cap {"new", "done", "send code"} = {} /\ {"edit", "delete", "done"} \subseteq PlainSteps
    BY DEF PlainSteps
  <2> QED BY <2>1, <2>2, PlainInv
<1>3. ASSUME CheckRead(r) PROVE Inv'
  <2>1. Turn(r, {"putRead"}, {"mark read", "done"}) /\ db' = db
    BY <1>0, <1>3, MessageTurns
  <2>2. {"putRead"} \cap {"new", "done", "send code"} = {} /\ {"mark read", "done"} \subseteq PlainSteps
    BY DEF PlainSteps
  <2> QED BY <2>1, <2>2, PlainInv
<1>4. ASSUME Show(r) PROVE Inv'
  <2>1. Turn(r, ReadOps, {"done"}) /\ db' = db
    BY <1>0, <1>4, ReadTurns
  <2>2. ReadOps \cap {"new", "done", "send code"} = {} /\ {"done"} \subseteq PlainSteps
    BY DEF PlainSteps, ReadOps
  <2> QED BY <2>1, <2>2, PlainInv
<1>5. ASSUME CheckList(r) PROVE Inv'
  <2>1. Turn(r, ListOps, {"page", "done"}) /\ db' = db
    BY <1>0, <1>5, ReadTurns
  <2>2. ListOps \cap {"new", "done", "send code"} = {} /\ {"page", "done"} \subseteq PlainSteps
    BY DEF PlainSteps, ListOps
  <2> QED BY <2>1, <2>2, PlainInv
<1>6. ASSUME ListMessages(r) PROVE Inv'
  <2>1. Turn(r, {"page"}, {"authenticate", "done"}) /\ db' = db
    BY <1>0, <1>6, ReadTurns
  <2>2. {"page"} \cap {"new", "done", "send code"} = {} /\ {"authenticate", "done"} \subseteq PlainSteps
    BY DEF PlainSteps
  <2> QED BY <2>1, <2>2, PlainInv
<1>7. ASSUME ListConversations(r) PROVE Inv'
  <2>1. Turn(r, {"page"}, {"authenticate", "done"}) /\ db' = db
    BY <1>0, <1>7, ReadTurns
  <2>2. {"page"} \cap {"new", "done", "send code"} = {} /\ {"authenticate", "done"} \subseteq PlainSteps
    BY DEF PlainSteps
  <2> QED BY <2>1, <2>2, PlainInv
<1>8. ASSUME ListEvents(r) PROVE Inv'
  <2>1. Turn(r, {"page"}, {"authenticate", "done"}) /\ db' = db
    BY <1>0, <1>8, ReadTurns
  <2>2. {"page"} \cap {"new", "done", "send code"} = {} /\ {"authenticate", "done"} \subseteq PlainSteps
    BY DEF PlainSteps
  <2> QED BY <2>1, <2>2, PlainInv
<1>9. ASSUME CheckSubscription(r) PROVE Inv'
  <2>1. Turn(r, {"createSub"}, {"insert sub", "done"}) /\ db' = db
    BY <1>0, <1>9, ReadTurns
  <2>2. {"createSub"} \cap {"new", "done", "send code"} = {} /\ {"insert sub", "done"} \subseteq PlainSteps
    BY DEF PlainSteps
  <2> QED BY <2>1, <2>2, PlainInv
<1>10. ASSUME SelectSubscription(r) PROVE Inv'
  <2>1. Turn(r, {"patchSub", "deleteSub"}, {"check sub", "done"}) /\ db' = db
    BY <1>0, <1>10, ReadTurns
  <2>2. {"patchSub", "deleteSub"} \cap {"new", "done", "send code"} = {} /\ {"check sub", "done"} \subseteq PlainSteps
    BY DEF PlainSteps
  <2> QED BY <2>1, <2>2, PlainInv
<1>11. ASSUME CheckSubscriptionKey(r) PROVE Inv'
  <2>1. Turn(r, {"check sub"}, {"write sub"}) /\ db' = db
    BY <1>0, <1>11, ReadTurns
  <2>2. {"check sub"} \cap {"new", "done", "send code"} = {} /\ {"write sub"} \subseteq PlainSteps
    BY DEF PlainSteps
  <2> QED BY <2>1, <2>2, PlainInv
<1>12. ASSUME StartSearch(r) PROVE Inv'
  <2>1. Turn(r, {"search"}, {"principals", "done"}) /\ db' = db
    BY <1>0, <1>12, SearchTurns
  <2>2. {"search"} \cap {"new", "done", "send code"} = {} /\ {"principals", "done"} \subseteq PlainSteps
    BY DEF PlainSteps
  <2> QED BY <2>1, <2>2, PlainInv
<1>13. ASSUME ReadPrincipals(r) PROVE Inv'
  <2>1. Turn(r, {"principals"}, {"candidates", "done"}) /\ db' = db
    BY <1>0, <1>13, SearchTurns
  <2>2. {"principals"} \cap {"new", "done", "send code"} = {} /\ {"candidates", "done"} \subseteq PlainSteps
    BY DEF PlainSteps
  <2> QED BY <2>1, <2>2, PlainInv
<1>14. ASSUME QueryCandidates(r) PROVE Inv'
  <2>1. Turn(r, {"candidates"}, {"done", "authenticate", "hydrate"}) /\ db' = db
    BY <1>0, <1>14, SearchTurns
  <2>2. {"candidates"} \cap {"new", "done", "send code"} = {} /\ {"done", "authenticate", "hydrate"} \subseteq PlainSteps
    BY DEF PlainSteps
  <2> QED BY <2>1, <2>2, PlainInv
<1>15. ASSUME Hydrate(r) PROVE Inv'
  <2>1. Turn(r, {"hydrate"}, {"hydrate", "done"}) /\ db' = db
    BY <1>0, <1>15, SearchTurns
  <2>2. {"hydrate"} \cap {"new", "done", "send code"} = {} /\ {"hydrate", "done"} \subseteq PlainSteps
    BY DEF PlainSteps
  <2> QED BY <2>1, <2>2, PlainInv
<1>16. ASSUME FinishSearch(r) PROVE Inv'
  <2>1. Turn(r, {"hydrate"}, {"authenticate", "done"}) /\ db' = db
    BY <1>0, <1>16, SearchTurns
  <2>2. {"hydrate"} \cap {"new", "done", "send code"} = {} /\ {"authenticate", "done"} \subseteq PlainSteps
    BY DEF PlainSteps
  <2> QED BY <2>1, <2>2, PlainInv
<1> QED BY <1>1, <1>2, <1>3, <1>4, <1>5, <1>6, <1>7, <1>8, <1>9, <1>10, <1>11, <1>12, <1>13, <1>14, <1>15, <1>16

\* What was found matters to one handler only.
LEMMA OneHandler ==
  ASSUME NEW r,
         \/ req'[r].pc \in SignInSteps /\ SignInOK(r)'
         \/ req'[r].pc \in CallbackSteps /\ CallbackOK(r)'
         \/ req'[r].pc \in {"update agent"} \cup TokenSteps /\ AgentOK(r)'
         \/ req'[r].pc \in {"update room", "insert message"} /\ RoomOK(r)'
  PROVE  StepOK(r)'
BY DEF StepOK, SignInOK, SignInSteps, CallbackOK, CallbackSteps, AgentOK, TokenSteps, RoomOK, At

\* Before the first step of a handler is done, the place is the command's name.
LEMMA FirstStep ==
  ASSUME Inv, NEW r \in Request, req[r].pc \notin Steps
  PROVE  req[r].pc = Do(r).op /\ IsCommand(Do(r))
BY DEF Inv, RequestOK, At, Steps

\* Signing in by email.
LEMMA SignInLooksInv ==
  ASSUME Inv, NEW r \in Request, scene' = scene, churn' = churn
  PROVE  /\ FindChallenge(r) => Inv'
         /\ LockChallenge(r) => Inv'
         /\ ResolveUserByEmail(r) => Inv'
<1>0. RequestShape(r) /\ SignInOK(r)
  BY ShapeOK DEF Inv, StepOK
<1>a. ASSUME req'[r].pc = "done" PROVE StepOK(r)'
  <2>1. req'[r].pc \in PlainSteps
    BY <1>a DEF PlainSteps
  <2> QED BY <2>1, PlainStep
<1>1. ASSUME FindChallenge(r) PROVE Inv'
  <2>1. Turn(r, {"verifyEmail"}, {"lock challenge", "done"}) /\ db' = db
    BY <1>0, <1>1, SignInTurns
  <2>2. {"verifyEmail"} \cap {"new", "done", "send code"} = {} /\ {"lock challenge", "done"} \subseteq Steps \ {"new"}
    BY DEF Steps
  <2>3. StepOK(r)'
    <3>1. req[r].pc \in {"verifyEmail"} /\ Do(r).op = "verifyEmail"
      <4>1. At(r, "verifyEmail")
        BY <1>1 DEF FindChallenge
      <4> QED BY <4>1, FirstStep DEF Steps, At
    <3>2. CASE Refuse(r)
      BY <1>0, <3>1, <3>2, RefuseTurn, <1>a DEF Turn
    <3>3. ASSUME NEW c \in GetEmailLoginChallenge(Do(r).email, Do(r).code), Locking(r, {}, c, "lock challenge")
          PROVE  StepOK(r)'
      <4>0. "lock challenge" # "done" /\ "done" \notin {"verifyEmail"}
        OBVIOUS
      <4>1. Turn(r, {"verifyEmail"}, {"lock challenge"}) /\ db' = db /\ req'[r].got = c
            /\ req'[r].locks = req[r].locks \cup {}
        BY <1>0, <3>1, <3>3, <4>0, LockTurn
      <4>2. c \in DOMAIN db.challenge /\ db.challenge[c].email = Do(r).email
        BY <3>3 DEF GetEmailLoginChallenge
      <4>3. req'[r].pc = "lock challenge" /\ req'[r].do = req[r].do
        BY <4>1 DEF Turn
      <4>4. SignInOK(r)'
        BY <2>1, <3>1, <4>1, <4>2, <4>3 DEF SignInOK, SignInSteps, At, Do, Got
      <4> QED BY <4>3, <4>4, OneHandler DEF SignInSteps
    <3> QED BY <1>1, <3>2, <3>3 DEF FindChallenge
  <2> QED BY <2>1, <2>2, <2>3, ReadInv
<1>2. ASSUME LockChallenge(r) PROVE Inv'
  <2>1. Turn(r, {"lock challenge"}, {"resolve user", "done"}) /\ db' = db
    BY <1>0, <1>2, SignInTurns
  <2>2. {"lock challenge"} \cap {"new", "done", "send code"} = {} /\ {"resolve user", "done"} \subseteq Steps \ {"new"}
    BY DEF Steps
  <2>3. StepOK(r)'
    <3>1. req[r].pc \in {"lock challenge"} /\ Do(r).op = "verifyEmail"
      BY <1>0, <2>1 DEF SignInOK, SignInSteps, Turn
    <3>2. CASE Refuse(r)
      BY <1>0, <3>1, <3>2, RefuseTurn, <1>a DEF Turn
    <3>3. CASE /\ ~db.challenge[Got(r)].used
               /\ Locking(r, {<<"challenge", Got(r)>>}, [challenge |-> Got(r), user |-> {}], "resolve user")
      <4>1. PICK rows : rows = {<<"challenge", Got(r)>>}
        OBVIOUS
      <4>2. PICK got : got = [challenge |-> Got(r), user |-> {}]
        OBVIOUS
      <4>3. Locking(r, rows, got, "resolve user")
        BY <3>3, <4>1, <4>2
      <4>0. "resolve user" # "done" /\ "done" \notin {"lock challenge"}
        OBVIOUS
      <4>4. Turn(r, {"lock challenge"}, {"resolve user"}) /\ db' = db /\ req'[r].got = got
            /\ req'[r].locks = req[r].locks \cup rows
        BY <1>0, <3>1, <4>3, <4>0, LockTurn
      <4>5. req'[r].pc = "resolve user" /\ req'[r].do = req[r].do
        BY <4>4 DEF Turn
      <4>6. Got(r) \in DOMAIN db.challenge /\ db.challenge[Got(r)].email = Do(r).email
        BY <1>0, <3>1 DEF SignInOK, At
      <4>7. DOMAIN got = {"challenge", "user"} /\ got.challenge = Got(r) /\ <<"challenge", Got(r)>> \in rows
        BY <4>1, <4>2
      <4>8. SignInOK(r)'
        BY <2>1, <3>1, <3>3, <4>4, <4>5, <4>6, <4>7 DEF SignInOK, SignInSteps, At, Do, Got
      <4> QED BY <4>5, <4>8, OneHandler DEF SignInSteps
    <3> QED BY <1>2, <3>2, <3>3 DEF LockChallenge
  <2> QED BY <2>1, <2>2, <2>3, ReadInv
<1>3. ASSUME ResolveUserByEmail(r) PROVE Inv'
  <2>1. Turn(r, {"resolve user"}, {"sign in"}) /\ db' = db
    BY <1>0, <1>3, SignInTurns
  <2>2. {"resolve user"} \cap {"new", "done", "send code"} = {} /\ {"sign in"} \subseteq Steps \ {"new"}
    BY DEF Steps
  <2>3. StepOK(r)'
    <3>1. PICK e : e = [req[r] EXCEPT !.got.user = GetUserByEmail(Do(r).email), !.pc = "sign in"]
      OBVIOUS
    <3>2. req'[r] = e
      BY <1>0, <1>3, <3>1 DEF ResolveUserByEmail, Becomes, RequestShape
    <3>3. e.pc = "sign in" /\ e.do = req[r].do /\ e.locks = req[r].locks /\ e.got = [Got(r) EXCEPT !.user = GetUserByEmail(Do(r).email)]
      BY <1>0, <3>1 DEF RequestShape, Fields, Got
    <3>4. /\ DOMAIN Got(r) = {"challenge", "user"} /\ Got(r).challenge \in DOMAIN db.challenge
          /\ db.challenge[Got(r).challenge].email = Do(r).email
          /\ ~db.challenge[Got(r).challenge].used
          /\ <<"challenge", Got(r).challenge>> \in req[r].locks
          /\ Do(r).op = "verifyEmail"
      BY <1>0, <2>1 DEF SignInOK, SignInSteps, Turn
    <3>5. e.got.user = GetUserByEmail(Do(r).email) /\ e.got.challenge = Got(r).challenge /\ DOMAIN e.got = {"challenge", "user"}
      BY <3>3, <3>4
    <3>6. \A u \in e.got.user : u \in DOMAIN db.user /\ db.user[u].email = Do(r).email
      BY <3>5 DEF GetUserByEmail
    <3>7. SignInOK(r)'
      BY <2>1, <3>2, <3>3, <3>4, <3>5, <3>6 DEF SignInOK, SignInSteps, At, Do, Got
    <3> QED BY <3>2, <3>3, <3>7, OneHandler DEF SignInSteps
  <2> QED BY <2>1, <2>2, <2>3, ReadInv
<1> QED BY <1>1, <1>2, <1>3

\* Signing in with an identity.
LEMMA CallbackLooksInv ==
  ASSUME Inv, NEW r \in Request, scene' = scene, churn' = churn
  PROVE  /\ OAuthCallback(r) => Inv'
         /\ Exchange(r) => Inv'
         /\ DeleteState(r) => Inv'
         /\ FindAccount(r) => Inv'
         /\ FindUserOfAccount(r) => Inv'
<1>0. RequestShape(r) /\ CallbackOK(r)
  BY ShapeOK DEF Inv, StepOK
<1>a. ASSUME req'[r].pc = "done" PROVE StepOK(r)'
  <2>1. req'[r].pc \in PlainSteps
    BY <1>a DEF PlainSteps
  <2> QED BY <2>1, PlainStep
<1>b. ASSUME req'[r].pc \in {"exchange", "delete state", "find account"}, Do(r).op = "callback", req'[r].do = req[r].do
      PROVE  StepOK(r)'
  <2>1. CallbackOK(r)'
    BY <1>b DEF CallbackOK, At, Do
  <2> QED BY <1>b, <2>1, OneHandler DEF CallbackSteps
<1>1. ASSUME OAuthCallback(r) PROVE Inv'
  <2>1. Turn(r, {"callback"}, {"exchange", "done"}) /\ db' = db
    BY <1>0, <1>1, SignInTurns
  <2>2. {"callback"} \cap {"new", "done", "send code"} = {} /\ {"exchange", "done"} \subseteq Steps \ {"new"}
    BY DEF Steps
  <2>3. Do(r).op = "callback"
    <3>1. req[r].pc = "callback"
      BY <2>1 DEF Turn
    <3> QED BY <3>1, FirstStep DEF Steps
  <2>4. StepOK(r)'
    BY <1>a, <1>b, <2>1, <2>3 DEF Turn
  <2> QED BY <2>1, <2>2, <2>4, ReadInv
<1>2. ASSUME Exchange(r) PROVE Inv'
  <2>1. Turn(r, {"exchange"}, {"delete state", "done"}) /\ db' = db
    BY <1>0, <1>2, SignInTurns
  <2>2. {"exchange"} \cap {"new", "done", "send code"} = {} /\ {"delete state", "done"} \subseteq Steps \ {"new"}
    BY DEF Steps
  <2>3. Do(r).op = "callback"
    BY <1>0, <2>1 DEF Turn, CallbackOK, CallbackSteps
  <2>4. StepOK(r)'
    BY <1>a, <1>b, <2>1, <2>3 DEF Turn
  <2> QED BY <2>1, <2>2, <2>4, ReadInv
<1>3. ASSUME DeleteState(r) PROVE Inv'
  <2>1. Turn(r, {"delete state"}, {"find account", "done"}) /\ db' = db
    BY <1>0, <1>3, SignInTurns
  <2>2. {"delete state"} \cap {"new", "done", "send code"} = {} /\ {"find account", "done"} \subseteq Steps \ {"new"}
    BY DEF Steps
  <2>3. Do(r).op = "callback"
    BY <1>0, <2>1 DEF Turn, CallbackOK, CallbackSteps
  <2>4. StepOK(r)'
    BY <1>a, <1>b, <2>1, <2>3 DEF Turn
  <2> QED BY <2>1, <2>2, <2>4, ReadInv
<1>4. ASSUME FindAccount(r) PROVE Inv'
  <2>1. Turn(r, {"find account"}, {"account's email", "enter"}) /\ db' = db
    BY <1>0, <1>4, SignInTurns
  <2>2. {"find account"} \cap {"new", "done", "send code"} = {} /\ {"account's email", "enter"} \subseteq Steps \ {"new"}
    BY DEF Steps
  <2>3. StepOK(r)'
    <3>0. PICK got : got = [account |-> GetUserByOAuthAccount(Do(r).who), user |-> GetUserByOAuthAccount(Do(r).who)]
      OBVIOUS
    <3>1. PICK step : step = IF GetUserByOAuthAccount(Do(r).who) = {} /\ EmailOf[Do(r).who] # None
                             THEN "account's email" ELSE "enter"
      OBVIOUS
    <3>2. req'[r] = [req[r] EXCEPT !.got = got, !.pc = step]
      BY <1>0, <1>4, <3>0, <3>1 DEF FindAccount, Becomes, RequestShape
    <3>3. req'[r].got = got
      BY <1>0, <3>2 DEF RequestShape, Fields
    <3>4. Do(r).op = "callback" /\ req'[r].do = req[r].do /\ req'[r].pc \in {"account's email", "enter"}
      BY <1>0, <2>1 DEF Turn, CallbackOK, CallbackSteps
    <3>5. DOMAIN got = {"account", "user"} /\ got.user = GetUserByOAuthAccount(Do(r).who)
      BY <3>0
    <3>6. \A u \in got.user : u \in DOMAIN db.user /\ (EmailOf[Do(r).who] # None => db.user[u].email = EmailOf[Do(r).who])
      BY <3>5 DEF GetUserByOAuthAccount, Inv, References, PeopleOK
    <3>7. CallbackOK(r)'
      BY <2>1, <3>3, <3>4, <3>5, <3>6 DEF CallbackOK, CallbackSteps, At, Do, Got
    <3> QED BY <3>4, <3>7, OneHandler DEF CallbackSteps
  <2> QED BY <2>1, <2>2, <2>3, ReadInv
<1>5. ASSUME FindUserOfAccount(r) PROVE Inv'
  <2>1. Turn(r, {"account's email"}, {"enter"}) /\ db' = db
    BY <1>0, <1>5, SignInTurns
  <2>2. {"account's email"} \cap {"new", "done", "send code"} = {} /\ {"enter"} \subseteq Steps \ {"new"}
    BY DEF Steps
  <2>3. StepOK(r)'
    <3>1. PICK found : found = GetUserByEmail(EmailOf[Do(r).who])
      OBVIOUS
    <3>2. req'[r] = [req[r] EXCEPT !.got.user = found, !.pc = "enter"]
      BY <1>0, <1>5, <3>1 DEF FindUserOfAccount, Becomes, RequestShape
    <3>3. req'[r].got = [Got(r) EXCEPT !.user = found]
      BY <1>0, <3>2 DEF RequestShape, Fields, Got
    <3>4. /\ Do(r).op = "callback" /\ req'[r].do = req[r].do /\ req'[r].pc = "enter"
          /\ DOMAIN Got(r) = {"account", "user"}
      BY <1>0, <2>1 DEF Turn, CallbackOK, CallbackSteps
    <3>5. DOMAIN req'[r].got = {"account", "user"} /\ req'[r].got.user = found
      BY <3>3, <3>4
    <3>6. \A u \in found : u \in DOMAIN db.user /\ db.user[u].email = EmailOf[Do(r).who]
      BY <3>1 DEF GetUserByEmail
    <3>7. CallbackOK(r)'
      BY <2>1, <3>4, <3>5, <3>6 DEF CallbackOK, CallbackSteps, At, Do, Got
    <3> QED BY <3>4, <3>7, OneHandler DEF CallbackSteps
  <2> QED BY <2>1, <2>2, <2>3, ReadInv
<1> QED BY <1>1, <1>2, <1>3, <1>4, <1>5

\* Agents.
LEMMA AgentLooksInv ==
  ASSUME Inv, NEW r \in Request, scene' = scene, churn' = churn
  PROVE  /\ LoadAgent(r) => Inv'
         /\ SelectToken(r) => Inv'
         /\ RevokeToken(r) => Inv'
         /\ GetOrCreateAgentKey(r) => Inv'
         /\ RotateAgentKey(r) => Inv'
<1>0. RequestShape(r) /\ AgentOK(r)
  BY ShapeOK DEF Inv, StepOK
<1>a. ASSUME req'[r].pc = "done" PROVE StepOK(r)'
  <2>1. req'[r].pc \in PlainSteps
    BY <1>a DEF PlainSteps
  <2> QED BY <2>1, PlainStep
<1>b. ASSUME req[r].pc \in TokenSteps
      PROVE  DOMAIN Got(r) = {"user", "before"} /\ Do(r).agent \in DOMAIN db.agent
  BY <1>0, <1>b DEF AgentOK
<1>c. ASSUME NEW found, NEW got, DOMAIN Got(r) = {"user", "before"}, got = [Got(r) EXCEPT !.user = found]
      PROVE  DOMAIN got = {"user", "before"} /\ got.user = found
  BY <1>c
<1>d. ASSUME Do(r).agent \in DOMAIN db.agent, db' = db, req'[r].do = req[r].do,
             req'[r].pc \in {"lock token", "lock old token", "new token"}, DOMAIN req'[r].got = {"user", "before"},
             \A t \in req'[r].got.user : t \in DOMAIN db.token /\ db.token[t].agent = Do(r).agent
      PROVE  StepOK(r)'
  <2>1. AgentOK(r)'
    BY <1>d DEF AgentOK, TokenSteps, At, Do, Got
  <2> QED BY <1>d, <2>1, OneHandler DEF TokenSteps
<1>1. ASSUME LoadAgent(r) PROVE Inv'
  <2>1. Turn(r, AgentOp, {"update agent", "select token", "revoke token", "done"}) /\ db' = db
    BY <1>0, <1>1, AccountTurns
  <2>2. /\ AgentOp \cap {"new", "done", "send code"} = {}
        /\ {"update agent", "select token", "revoke token", "done"} \subseteq Steps \ {"new"}
    BY DEF Steps, AgentOp
  <2>3. StepOK(r)'
    <3>1. CASE Refuse(r)
      BY <1>0, <2>1, <3>1, RefuseTurn, <1>a DEF Turn
    <3>2. CASE ~Refuse(r)
      <4>1. PICK got : got = [user |-> GetUser(Do(r).agent), before |-> Answered]
        OBVIOUS
      <4>2. PICK step : step = CASE At(r, "patchAgent") -> "update agent"
                                 [] At(r, "getAgentKey") -> "select token"
                                 [] At(r, "rotateAgentKey") -> "revoke token"
        OBVIOUS
      <4>3. Manageable(r) /\ Read(r, got, step)
        BY <1>1, <3>2, <4>1, <4>2 DEF LoadAgent
      <4>4. Do(r).agent \in DOMAIN db.agent
        BY <4>3 DEF Manageable, GetAgent
      <4>5. req[r].pc \in AgentOp /\ req[r].pc = Do(r).op
        <5>1. req[r].pc \in AgentOp
          BY <1>1 DEF LoadAgent
        <5> QED BY <5>1, FirstStep DEF Steps, AgentOp
      <4>6. step \in {"update agent", "select token", "revoke token"} /\ (step = "update agent" => Do(r).op = "patchAgent")
        BY <4>2, <4>5 DEF AgentOp, At
      <4>7. req'[r].got = got /\ req'[r].pc = step /\ req'[r].do = req[r].do
        BY <1>0, <4>3 DEF Read, Becomes, RequestShape, Fields
      <4>8. DOMAIN got = {"user", "before"} /\ got.before = Answered /\ got.user = db.user[Do(r).agent]
        BY <4>1 DEF GetUser
      <4>9. Answered' = Answered
        <5>1. \A q \in Request : req'[q].pc = "done" <=> req[q].pc = "done"
          <6>1. \A q \in Request : q # r => req'[q] = req[q]
            BY <1>0, <2>1 DEF Turn, RequestShape
          <6> QED BY <4>5, <4>6, <4>7, <6>1 DEF AgentOp
        <5> QED BY <5>1 DEF Answered, At
      <4>10. AgentOK(r)'
        BY <2>1, <4>4, <4>6, <4>7, <4>8, <4>9 DEF AgentOK, TokenSteps, At, Do, Got
      <4> QED BY <4>6, <4>7, <4>10, OneHandler DEF TokenSteps
    <3> QED BY <3>1, <3>2
  <2> QED BY <2>1, <2>2, <2>3, ReadInv
<1>2. ASSUME NEW from \in {"select token", "revoke token"}, NEW to \in {"lock token", "lock old token"},
             req[r].pc = from, Snapshot(r, to)
      PROVE  Inv'
  <2>1. PICK got : got = [Got(r) EXCEPT !.user = GetActiveAgentAPIKey(Do(r).agent)]
    OBVIOUS
  <2>2. Locking(r, {}, got, to)
    BY <1>2, <2>1 DEF Snapshot
  <2>3. req[r].pc \in {from} /\ "done" \notin {from} /\ to # "done"
    BY <1>2
  <2>4. Turn(r, {from}, {to}) /\ db' = db /\ req'[r].got = got /\ req'[r].locks = req[r].locks \cup {}
    BY <1>0, <2>2, <2>3, LockTurn
  <2>5. {from} \cap {"new", "done", "send code"} = {} /\ {to} \subseteq Steps \ {"new"}
    BY DEF Steps
  <2>6. StepOK(r)'
    <3>1. Do(r).agent \in DOMAIN db.agent /\ DOMAIN got = {"user", "before"} /\ got.user = GetActiveAgentAPIKey(Do(r).agent)
      BY <1>2, <2>1, <1>b, <1>c DEF TokenSteps
    <3>2. \A t \in got.user : t \in DOMAIN db.token /\ db.token[t].agent = Do(r).agent
      BY <3>1 DEF GetActiveAgentAPIKey, LiveTokens
    <3> QED BY <1>d, <2>4, <3>1, <3>2 DEF Turn
  <2>7. Turn(r, {from}, {to}) /\ db' = db
    BY <2>4
  <2> QED BY <2>5, <2>6, <2>7, ReadInv
<1>3. ASSUME SelectToken(r) PROVE Inv'
  BY <1>2, <1>3 DEF SelectToken, At
<1>4. ASSUME RevokeToken(r) PROVE Inv'
  BY <1>2, <1>4 DEF RevokeToken, At
<1>5. ASSUME NEW from \in {"lock token", "lock old token"}, req[r].pc = from, NEW rows,
             Locking(r, rows, [Got(r) EXCEPT !.user = StillLive(r)], "new token")
      PROVE  Inv'
  <2>1. PICK got : got = [Got(r) EXCEPT !.user = StillLive(r)]
    OBVIOUS
  <2>2. Locking(r, rows, got, "new token")
    BY <1>5, <2>1
  <2>3. req[r].pc \in {from} /\ "done" \notin {from} /\ "new token" # "done"
    BY <1>5
  <2>4. Turn(r, {from}, {"new token"}) /\ db' = db /\ req'[r].got = got /\ req'[r].locks = req[r].locks \cup rows
    BY <1>0, <2>2, <2>3, LockTurn
  <2>5. {from} \cap {"new", "done", "send code"} = {} /\ {"new token"} \subseteq Steps \ {"new"}
    BY DEF Steps
  <2>6. StepOK(r)'
    <3>1. Do(r).agent \in DOMAIN db.agent /\ DOMAIN got = {"user", "before"} /\ got.user = StillLive(r)
      BY <1>5, <2>1, <1>b, <1>c DEF TokenSteps
    <3>2. \A t \in got.user : t \in DOMAIN db.token /\ db.token[t].agent = Do(r).agent
      BY <3>1 DEF StillLive, GetActiveAgentAPIKey, LiveTokens
    <3> QED BY <1>d, <2>4, <3>1, <3>2 DEF Turn
  <2>7. Turn(r, {from}, {"new token"}) /\ db' = db
    BY <2>4
  <2> QED BY <2>5, <2>6, <2>7, ReadInv
<1>6. ASSUME GetOrCreateAgentKey(r) PROVE Inv'
  <2>1. CASE Answer(r, "ok") /\ db' = db
    <3>1. Turn(r, {"lock token"}, {"new token", "done"}) /\ db' = db
      BY <1>0, <1>6, AccountTurns
    <3>2. {"lock token"} \cap {"new", "done", "send code"} = {} /\ {"new token", "done"} \subseteq Steps \ {"new"}
      BY DEF Steps
    <3>3. StepOK(r)'
      BY <1>0, <1>a, <2>1 DEF Answer, Becomes, RequestShape, Fields
    <3> QED BY <3>1, <3>2, <3>3, ReadInv
  <2>2. ASSUME NEW rows, Locking(r, rows, [Got(r) EXCEPT !.user = StillLive(r)], "new token")
        PROVE  Inv'
    BY <1>5, <1>6, <2>2 DEF GetOrCreateAgentKey, At
  <2> QED BY <1>6, <2>1, <2>2 DEF GetOrCreateAgentKey
<1>7. ASSUME RotateAgentKey(r) PROVE Inv'
  BY <1>5, <1>7 DEF RotateAgentKey, At
<1> QED BY <1>1, <1>3, <1>4, <1>6, <1>7

\* Conversations and messages.
LEMMA RoomLooksInv ==
  ASSUME Inv, NEW r \in Request, scene' = scene, churn' = churn
  PROVE  /\ LoadConversation(r) => Inv'
         /\ CheckPost(r) => Inv'
<1>0. RequestShape(r) /\ RoomOK(r) /\ IsTables(db)
  BY ShapeOK DEF Inv, StepOK
<1>a. ASSUME req'[r].pc = "done" PROVE StepOK(r)'
  <2>1. req'[r].pc \in PlainSteps
    BY <1>a DEF PlainSteps
  <2> QED BY <2>1, PlainStep
<1>1. ASSUME LoadConversation(r) PROVE Inv'
  <2>1. Turn(r, {"patchRoom"}, {"update room", "done"}) /\ db' = db
    BY <1>0, <1>1, MessageTurns
  <2>2. {"patchRoom"} \cap {"new", "done", "send code"} = {} /\ {"update room", "done"} \subseteq Steps \ {"new"}
    BY DEF Steps
  <2>3. StepOK(r)'
    <3>1. CASE Refuse(r)
      BY <1>0, <2>1, <3>1, RefuseTurn, <1>a DEF Turn
    <3>2. CASE ~Refuse(r)
      <4>1. PICK got : got = [archived |-> db.room[Do(r).room].archived, before |-> Answered]
        OBVIOUS
      <4>3. EnsurePermission(Caller(r), Do(r).room) /\ Read(r, got, "update room")
        BY <1>1, <3>2, <4>1 DEF LoadConversation
      <4>4. Do(r).room \in DOMAIN db.room
        BY <4>3 DEF EnsurePermission, GetConversation
      <4>5. req[r].pc = "patchRoom" /\ req[r].pc = Do(r).op
        <5>1. req[r].pc = "patchRoom"
          BY <1>1 DEF LoadConversation, At
        <5> QED BY <5>1, FirstStep DEF Steps
      <4>7. req'[r].got = got /\ req'[r].pc = "update room" /\ req'[r].do = req[r].do
        BY <1>0, <4>3 DEF Read, Becomes, RequestShape, Fields
      <4>8. got.before = Answered /\ got.archived = db.room[Do(r).room].archived
        BY <4>1
      <4>9. Answered' = Answered
        <5>1. \A q \in Request : req'[q].pc = "done" <=> req[q].pc = "done"
          <6>1. \A q \in Request : q # r => req'[q] = req[q]
            BY <1>0, <2>1 DEF Turn, RequestShape
          <6> QED BY <4>5, <4>7, <6>1
        <5> QED BY <5>1 DEF Answered, At
      <4>10. RoomOK(r)'
        BY <2>1, <4>4, <4>5, <4>7, <4>8, <4>9 DEF RoomOK, At, Do, Got
      <4> QED BY <4>7, <4>10, OneHandler
    <3> QED BY <3>1, <3>2
  <2> QED BY <2>1, <2>2, <2>3, ReadInv
<1>2. ASSUME CheckPost(r) PROVE Inv'
  <2>1. Turn(r, {"post"}, {"insert message", "done"})
    BY <1>0, <1>2, MessageTurns
  <2>2. {"post"} \cap {"new", "done", "send code"} = {} /\ {"insert message", "done"} \subseteq Steps \ {"new"}
    BY DEF Steps
  <2>3. CASE Refuse(r)
    <3>1. StepOK(r)'
      BY <1>0, <1>a, <2>3 DEF Refuse, Answer, Becomes, RequestShape, Fields
    <3>2. Turn(r, {"post"}, {"insert message", "done"}) /\ db' = db
      BY <2>1, <2>3 DEF Refuse
    <3> QED BY <2>2, <3>1, <3>2, ReadInv
  <2>4. CASE ~Refuse(r)
    <3>1. /\ EnsureConversationAccess(Caller(r), Do(r).room)
          /\ db' = [db EXCEPT !.clock = @ + 1]
          /\ Becomes(r, [req[r] EXCEPT !.got = db.clock + 1, !.pc = "insert message"])
      BY <1>2, <2>4 DEF CheckPost
    <3>2. Do(r).room \in DOMAIN db.room
      BY <3>1 DEF EnsureConversationAccess, GetConversation
    <3>3. DOMAIN db' = TableNames /\ \A t \in TableNames \ {"clock"} : db'[t] = db[t]
      BY <1>0, <3>1 DEF IsTables
    <3>4. Rewrites /\ db'.user = db.user /\ db'.room = db.room
      BY <1>0, <3>3 DEF Rewrites, IsTables, TableNames
    <3>5. req'[r].pc = "insert message" /\ req'[r].do = req[r].do
      BY <1>0, <3>1 DEF Becomes, RequestShape, Fields
    <3>6. RoomOK(r)'
      BY <3>2, <3>4, <3>5 DEF RoomOK, At, Do
    <3>7. StepOK(r)'
      BY <3>5, <3>6, OneHandler
    <3> QED BY <2>1, <2>2, <3>4, <3>7, LookInv
  <2> QED BY <2>3, <2>4
<1> QED BY <1>1, <1>2

-----------------------------------------------------------------------------
(***************************************************************************)
(* The writes.                                                             *)
(***************************************************************************)

\* e has the tables of d but for those of changed.
Only(d, e, changed) == DOMAIN e = TableNames /\ \A t \in TableNames \ changed : e[t] = d[t]

\* e is d with one more row of t.
AddsRow(d, e, t, id, row) ==
  /\ Only(d, e, {t}) /\ DOMAIN e[t] = DOMAIN d[t] \cup {id} /\ e[t][id] = row
  /\ \A x \in DOMAIN d[t] \ {id} : e[t][x] = d[t][x]

LEMMA AddOnly ==
  ASSUME NEW d, DOMAIN d = TableNames, NEW t \in TableNames, NEW id, NEW row
  PROVE  AddsRow(d, Add(d, t, id, row), t, id, row)
BY DEF Add, AddsRow, Only

LEMMA ToldOnly ==
  ASSUME NEW d, DOMAIN d = TableNames, NEW r, NEW kind, NEW id, NEW space, NEW e,
         e = InsertInternalEvent(d, r, kind, id, space)
  PROVE  Only(d, e, {"told"})
BY DEF InsertInternalEvent, Only

\* Of conversations, the internal events that are new are of c.
TellsOf(d, e, c, space) == \A i \in e.told :
  \/ i \in d.told \/ i.kind \in {"user", "workspace"}
  \/ i.kind = "conversation" /\ i.id = c /\ i.space = space

LEMMA ToldOf ==
  ASSUME NEW d, DOMAIN d = TableNames, NEW r, NEW kind \in {"workspace", "conversation"}, NEW c, NEW space,
         NEW e, e = InsertInternalEvent(d, r, kind, c, space), NEW b, b.told = d.told \/ TellsOf(b, d, c, space)
  PROVE  TellsOf(b, e, c, space)
<1>1. PICK i : i = [by |-> r, kind |-> kind, id |-> c, space |-> space]
  OBVIOUS
<1>2. e.told = d.told \cup {i} /\ i.kind = kind /\ i.id = c /\ i.space = space
  BY <1>1 DEF InsertInternalEvent, TableNames
<1> QED BY <1>2 DEF TellsOf

LEMMA OnlyTwice ==
  ASSUME NEW d, NEW e, NEW f, NEW S, NEW T, Only(d, e, S), Only(e, f, T)
  PROVE  Only(d, f, S \cup T)
BY DEF Only

LEMMA NoWrite ==
  ASSUME Inv, NEW r, Refuse(r) \/ Fails(r)
  PROVE  Rewrites
BY SameRewrites DEF Inv, Refuse, Fails

\* A write of one table that rewrites its rows, and perhaps of events.
LEMMA RewritesUser ==
  ASSUME IsTables(db), Only(db, db', {"user", "told"}), NEW u, NEW e, db'.user = [db.user EXCEPT ![u] = e],
         u \in DOMAIN db.user => DOMAIN e = DOMAIN db.user[u] /\ e.email = db.user[u].email
  PROVE  Rewrites
BY DEF IsTables, Only, TableNames, Rewrites
LEMMA RewritesRoom ==
  ASSUME IsTables(db), Only(db, db', {"room", "told"}), NEW c, NEW e, db'.room = [db.room EXCEPT ![c] = e],
         c \in DOMAIN db.room => DOMAIN e = DOMAIN db.room[c] /\ e.space = db.room[c].space
  PROVE  Rewrites
BY DEF IsTables, Only, TableNames, Rewrites
LEMMA RewritesMessage ==
  ASSUME IsTables(db), Only(db, db', {"message", "told"}), NEW m, NEW e, db'.message = [db.message EXCEPT ![m] = e],
         m \in DOMAIN db.message => DOMAIN e = DOMAIN db.message[m] /\ e.room = db.message[m].room
  PROVE  Rewrites
BY DEF IsTables, Only, TableNames, Rewrites
LEMMA RewritesSession ==
  ASSUME IsTables(db), Only(db, db', {"session"}), NEW s, NEW e, db'.session = [db.session EXCEPT ![s] = e],
         s \in DOMAIN db.session =>
           DOMAIN e = DOMAIN db.session[s] /\ e.user = db.session[s].user /\ e.by = db.session[s].by
  PROVE  Rewrites
BY DEF IsTables, Only, TableNames, Rewrites
LEMMA RewritesOther ==
  ASSUME IsTables(db), Only(db, db', {"told", "state", "read", "event", "clock"})
  PROVE  Rewrites
BY DEF IsTables, Only, TableNames, Rewrites

ProfileOf(row, handle, bio) == [row EXCEPT !.handle = IF handle = None THEN @ ELSE handle, !.bio = bio]

LEMMA ProfileRow ==
  ASSUME IsTables(db), NEW u, NEW handle, NEW bio, NEW d, d = UpdateUserProfile(db, u, handle, bio)
  PROVE  Only(db, d, {"user"}) /\ d.user = [db.user EXCEPT ![u] = ProfileOf(db.user[u], handle, bio)]
<1>0. PICK e : e = ProfileOf(db.user[u], handle, bio)
  OBVIOUS
<1>1. PICK h : h = IF handle = None THEN db.user[u].handle ELSE handle
  OBVIOUS
<1>2. PICK first : first = [db EXCEPT !.user[u].handle = h]
  OBVIOUS
<1>3. d = [first EXCEPT !.user[u].bio = bio]
  BY <1>1, <1>2 DEF UpdateUserProfile
<1>4. PICK row : row = [db.user[u] EXCEPT !.handle = h]
  OBVIOUS
<1>5. e = [row EXCEPT !.bio = bio]
  BY <1>0, <1>1, <1>4 DEF ProfileOf
<1>6. Only(db, first, {"user"}) /\ first.user = [db.user EXCEPT ![u] = row]
  BY <1>2, <1>4 DEF Only, IsTables, TableNames
<1>7. Only(first, d, {"user"}) /\ d.user = [first.user EXCEPT ![u] = [first.user[u] EXCEPT !.bio = bio]]
  BY <1>3, <1>6 DEF Only, TableNames
<1>8. d.user = [db.user EXCEPT ![u] = e]
  BY <1>5, <1>6, <1>7
<1> QED BY <1>0, <1>6, <1>7, <1>8 DEF Only

\* A message is edited or deleted, and an event written.
LEMMA MessageRewritten ==
  ASSUME IsTables(db), NEW r, NEW m, NEW d, NEW e, d = [db EXCEPT !.message = [db.message EXCEPT ![m] = e]],
         e = [db.message[m] EXCEPT !.body = "edited"] \/ e = [db.message[m] EXCEPT !.deleted = TRUE],
         NEW c, NEW space, db' = InsertInternalEvent(d, r, "conversation", c, space)
  PROVE  /\ Rewrites
         /\ Only(db, db', {"message", "told"}) /\ DOMAIN db'.message = DOMAIN db.message
         /\ \A x \in DOMAIN db.message :
              db'.message[x].room = db.message[x].room /\ db'.message[x].at = db.message[x].at
         /\ d.told = db.told /\ DOMAIN d = TableNames
<1>1. Only(db, d, {"message"}) /\ d.message = [db.message EXCEPT ![m] = e]
  BY DEF Only, IsTables, TableNames
<1>2. Only(d, db', {"told"})
  BY <1>1, ToldOnly DEF Only
<1>3. Only(db, db', {"message", "told"}) /\ db'.message = [db.message EXCEPT ![m] = e]
  BY <1>1, <1>2 DEF Only, TableNames
<1>4. m \in DOMAIN db.message => DOMAIN e = DOMAIN db.message[m] /\ e.room = db.message[m].room
  BY DEF IsTables
<1>5. m \in DOMAIN db.message => e.at = db.message[m].at
  BY DEF IsTables
<1>6. DOMAIN db'.message = DOMAIN db.message /\ \A x \in DOMAIN db.message :
        db'.message[x].room = db.message[x].room /\ db'.message[x].at = db.message[x].at
  BY <1>3, <1>4, <1>5
<1>7. Rewrites
  BY <1>3, <1>4, RewritesMessage
<1>8. d.told = db.told /\ DOMAIN d = TableNames
  BY <1>1 DEF Only, TableNames
<1> QED BY <1>3, <1>6, <1>7, <1>8

\* The archived mark that is written is the one that was given, or found.
LEMMA PatchRoomWrites ==
  ASSUME IsTables(db), NEW r, PatchConversation(r)
  PROVE  /\ Rewrites
         /\ Do(r).room \in DOMAIN db.room =>
              db'.room[Do(r).room].archived = IF Do(r).archived = None THEN Got(r).archived ELSE Do(r).archived
         /\ Only(db, db', {"room", "told"}) /\ DOMAIN db'.room = DOMAIN db.room
         /\ \A x \in DOMAIN db.room :
              db'.room[x].space = db.room[x].space /\ db'.room[x].policy = db.room[x].policy
         /\ TellsOf(db, db', Do(r).room, db.room[Do(r).room].space)
<1>1. PICK c : c = Do(r).room
  OBVIOUS
<1>2. PICK archived : archived = IF Do(r).archived = None THEN Got(r).archived ELSE Do(r).archived
  OBVIOUS
<1>3. PICK d : d = UpdateConversationDetails(db, c, Do(r).title, archived)
  OBVIOUS
<1>4. db' = InsertInternalEvent(d, r, "conversation", c, db.room[c].space)
  BY <1>1, <1>2, <1>3 DEF PatchConversation, Commit
<1>5. PICK e : e = [db.room[c] EXCEPT !.title = IF Do(r).title = None THEN @ ELSE Do(r).title, !.archived = archived]
  OBVIOUS
<1>6. PICK title : title = IF Do(r).title = None THEN db.room[c].title ELSE Do(r).title
  OBVIOUS
<1>7. Only(db, d, {"room"}) /\ d.room = [db.room EXCEPT ![c] = e]
  <2>1. PICK first : first = [db EXCEPT !.room[c].title = title]
    OBVIOUS
  <2>2. d = [first EXCEPT !.room[c].archived = archived]
    BY <1>3, <1>6, <2>1 DEF UpdateConversationDetails
  <2>3. PICK row : row = [db.room[c] EXCEPT !.title = title]
    OBVIOUS
  <2>4. e = [row EXCEPT !.archived = archived]
    BY <1>5, <1>6, <2>3
  <2>5. Only(db, first, {"room"}) /\ first.room = [db.room EXCEPT ![c] = row]
    BY <2>1, <2>3 DEF Only, IsTables, TableNames
  <2>6. Only(first, d, {"room"}) /\ d.room = [first.room EXCEPT ![c] = [first.room[c] EXCEPT !.archived = archived]]
    BY <2>2, <2>5 DEF Only, TableNames
  <2>7. d.room = [db.room EXCEPT ![c] = e]
    BY <2>4, <2>5, <2>6
  <2> QED BY <2>5, <2>6, <2>7 DEF Only
<1>8. Only(d, db', {"told"})
  BY <1>4, <1>7, ToldOnly DEF Only
<1>9. Only(db, db', {"room", "told"}) /\ db'.room = [db.room EXCEPT ![c] = e]
  BY <1>7, <1>8 DEF Only, TableNames
<1>10. c \in DOMAIN db.room => DOMAIN e = DOMAIN db.room[c] /\ e.space = db.room[c].space /\ e.archived = archived
  BY <1>5 DEF IsTables
<1>11. Rewrites
  BY <1>9, <1>10, RewritesRoom
<1>12. c \in DOMAIN db.room => e.policy = db.room[c].policy
  BY <1>5 DEF IsTables
<1>13. DOMAIN db'.room = DOMAIN db.room /\ \A x \in DOMAIN db.room :
         db'.room[x].space = db.room[x].space /\ db'.room[x].policy = db.room[x].policy
  BY <1>9, <1>10, <1>12
<1>14. Do(r).room \in DOMAIN db.room =>
         db'.room[Do(r).room].archived = IF Do(r).archived = None THEN Got(r).archived ELSE Do(r).archived
  BY <1>1, <1>2, <1>9, <1>10
<1>15. TellsOf(db, db', c, db.room[c].space)
  <2>1. d.told = db.told /\ DOMAIN d = TableNames
    BY <1>7 DEF Only, TableNames
  <2> QED BY <1>4, <2>1, ToldOf
<1> QED BY <1>1, <1>9, <1>11, <1>13, <1>14, <1>15

\* The handle that is written is the one that was given, or found.
LEMMA PatchAgentWrites ==
  ASSUME IsTables(db), NEW r, PatchAgent(r), ~(Refuse(r) \/ Fails(r))
  PROVE  /\ Rewrites
         /\ Do(r).agent \in DOMAIN db.user /\ Do(r).handle = None =>
              db'.user[Do(r).agent].handle \in {db.user[Do(r).agent].handle, Got(r).user.handle}
<1>1. PICK a : a = Do(r).agent
  OBVIOUS
<1>2. PICK handle : handle = IF Do(r).handle = None THEN Got(r).user.handle ELSE Do(r).handle
  OBVIOUS
<1>3. PICK profile : profile = UpdateUserProfile(db, a, handle, Got(r).user.bio)
  OBVIOUS
<1>4. PICK status : status = IF Do(r).status = None THEN profile ELSE UpdateUserStatus(profile, a, Do(r).status)
  OBVIOUS
<1>5. PICK d : d = UpdateAgent(status, a, Do(r).mode)
  OBVIOUS
<1>6. db' = InsertInternalEvent(d, r, "user", a, db.agent[a].space)
  BY <1>1, <1>2, <1>3, <1>4, <1>5 DEF PatchAgent, Commit
<1>7. PICK e : e = [db.user[a] EXCEPT !.handle = IF handle = None THEN @ ELSE handle, !.bio = Got(r).user.bio]
  OBVIOUS
<1>8. Only(db, profile, {"user"}) /\ profile.user = [db.user EXCEPT ![a] = e]
  <2>1. PICK bio : bio = Got(r).user.bio
    OBVIOUS
  <2>2. profile = UpdateUserProfile(db, a, handle, bio)
    BY <1>3, <2>1
  <2>3. e = ProfileOf(db.user[a], handle, bio)
    BY <1>7, <2>1 DEF ProfileOf
  <2> QED BY <2>2, <2>3, ProfileRow
<1>9. a \in DOMAIN db.user =>
        /\ DOMAIN e = DOMAIN db.user[a] /\ e.email = db.user[a].email
        /\ e.handle \in {db.user[a].handle, handle}
  BY <1>7 DEF IsTables
<1>10. PICK f : f = IF Do(r).status = None THEN e ELSE [e EXCEPT !.status = Do(r).status]
  OBVIOUS
<1>11. a \in DOMAIN db.user =>
         DOMAIN f = DOMAIN db.user[a] /\ f.email = db.user[a].email /\ f.handle = e.handle
  BY <1>9, <1>10 DEF IsTables
<1>12. Only(db, status, {"user"}) /\ status.user = [db.user EXCEPT ![a] = f]
  <2>1. CASE Do(r).status = None
    BY <1>4, <1>8, <1>10, <2>1
  <2>2. CASE Do(r).status # None
    <3>1. status = [profile EXCEPT !.user[a].status = Do(r).status] /\ f = [e EXCEPT !.status = Do(r).status]
      BY <1>4, <1>10, <2>2 DEF UpdateUserStatus
    <3>2. Only(profile, status, {"user"}) /\ status.user = [profile.user EXCEPT ![a].status = Do(r).status]
      BY <1>8, <3>1 DEF Only, TableNames
    <3>3. status.user = [db.user EXCEPT ![a] = f]
      BY <1>8, <3>1, <3>2
    <3>4. Only(db, status, {"user"})
      BY <1>8, <3>2 DEF Only
    <3> QED BY <3>3, <3>4
  <2> QED BY <2>1, <2>2
<1>13. Only(status, d, {"agent"}) /\ d.agent = [status.agent EXCEPT ![a].mode = IF Do(r).mode = None THEN @ ELSE Do(r).mode]
  BY <1>5, <1>12 DEF UpdateAgent, Only, TableNames
<1>14. Only(d, db', {"told"})
  BY <1>6, <1>13, ToldOnly DEF Only
<1>15. Only(db, db', {"user", "agent", "told"}) /\ db'.user = [db.user EXCEPT ![a] = f]
  BY <1>12, <1>13, <1>14 DEF Only, TableNames
<1>16. DOMAIN db'.agent = DOMAIN db.agent /\ \A b \in DOMAIN db.agent : DOMAIN db'.agent[b] = DOMAIN db.agent[b]
  <2>1. db'.agent = d.agent /\ status.agent = db.agent
    BY <1>12, <1>14 DEF Only, TableNames
  <2> QED BY <1>13, <2>1 DEF IsTables
<1>17. Rewrites
  BY <1>11, <1>15, <1>16 DEF IsTables, Only, TableNames, Rewrites
<1> QED BY <1>1, <1>2, <1>9, <1>11, <1>15, <1>17

\* Each write of rows there are.
LEMMA RewritersInv ==
  ASSUME Inv, NEW r \in Request, scene' = scene, churn' = churn
  PROVE  /\ SendEmailLoginCode(r) => Inv'
         /\ OAuthStart(r) => Inv'
         /\ DeleteCurrentSession(r) => Inv'
         /\ PatchMeProfile(r) => Inv'
         /\ DeleteKey(r) => Inv'
         /\ PatchAgent(r) => Inv'
         /\ PatchConversation(r) => Inv'
         /\ PatchMessage(r) => Inv'
         /\ DeleteMessage(r) => Inv'
         /\ PutReadState(r) => Inv'
         /\ PatchWorkspace(r) => Inv'
         /\ RefuseSubscriptionKey(r) => Inv'
         /\ PatchSubscription(r) => Inv'
         /\ DeleteSubscription(r) => Inv'
<1>0. RequestShape(r) /\ IsTables(db)
  BY ShapeOK DEF Inv
<1>1. ASSUME SendEmailLoginCode(r) PROVE Inv'
  <2>1. Turn(r, {"send code"}, {"done"})
    BY <1>0, <1>1, SignInTurns
  <2>2. {"send code"} \cap {"new", "done"} = {}
    OBVIOUS
  <2>3. Rewrites
    BY <1>1, <1>0, SameRewrites DEF SendEmailLoginCode
  <2> QED BY <2>1, <2>2, <2>3, RewriteInv
<1>2. ASSUME OAuthStart(r) PROVE Inv'
  <2>1. Turn(r, {"startOAuth"}, {"done"})
    BY <1>0, <1>2, SignInTurns
  <2>2. {"startOAuth"} \cap {"new", "done"} = {}
    OBVIOUS
  <2>3. Rewrites
    <3>1. db' = [db EXCEPT !.state = @ \cup {r}]
      BY <1>2 DEF OAuthStart, Commit, CreateOAuthState
    <3>2. Only(db, db', {"told", "state", "read", "event", "clock"})
      BY <1>0, <3>1 DEF Only, IsTables
    <3> QED BY <1>0, <3>2, RewritesOther
  <2> QED BY <2>1, <2>2, <2>3, RewriteInv
<1>3. ASSUME DeleteCurrentSession(r) PROVE Inv'
  <2>1. Turn(r, {"deleteSession"}, {"done"})
    BY <1>0, <1>3, AccountTurns
  <2>2. {"deleteSession"} \cap {"new", "done"} = {}
    OBVIOUS
  <2>3. Rewrites
    <3>1. CASE Refuse(r)
      BY <3>1, NoWrite
    <3>2. CASE Commit(r, RevokeAuthSession(db, Caller(r).session))
      <4>1. PICK s : s = Caller(r).session
        OBVIOUS
      <4>2. PICK e : e = [db.session[s] EXCEPT !.live = FALSE]
        OBVIOUS
      <4>3. db' = [db EXCEPT !.session = [db.session EXCEPT ![s] = e]]
        BY <1>0, <3>2, <4>1, <4>2 DEF Commit, RevokeAuthSession, IsTables, TableNames
      <4>4. Only(db, db', {"session"}) /\ db'.session = [db.session EXCEPT ![s] = e]
        BY <1>0, <4>3 DEF Only, IsTables, TableNames
      <4>5. s \in DOMAIN db.session =>
              DOMAIN e = DOMAIN db.session[s] /\ e.user = db.session[s].user /\ e.by = db.session[s].by
        BY <1>0, <4>2 DEF IsTables
      <4> QED BY <1>0, <4>4, <4>5, RewritesSession
    <3> QED BY <1>3, <3>1, <3>2 DEF DeleteCurrentSession
  <2> QED BY <2>1, <2>2, <2>3, RewriteInv
<1>4. ASSUME PatchMeProfile(r) PROVE Inv'
  <2>1. Turn(r, {"patchMe"}, {"done"})
    BY <1>0, <1>4, AccountTurns
  <2>2. {"patchMe"} \cap {"new", "done"} = {}
    OBVIOUS
  <2>3. Rewrites
    <3>1. CASE Refuse(r) \/ Fails(r)
      BY <3>1, NoWrite
    <3>2. CASE ~(Refuse(r) \/ Fails(r))
      <4>1. PICK u : u = Caller(r).user
        OBVIOUS
      <4>2. PICK d : d = UpdateUserProfile(db, u, Do(r).handle, Do(r).bio)
        OBVIOUS
      <4>3. db' = InsertInternalEvent(d, r, "user", u, None)
        BY <1>4, <3>2, <4>1, <4>2 DEF PatchMeProfile, Commit
      <4>4. PICK e : e = [db.user[u] EXCEPT !.handle = IF Do(r).handle = None THEN @ ELSE Do(r).handle, !.bio = Do(r).bio]
        OBVIOUS
      <4>6. Only(db, d, {"user"}) /\ d.user = [db.user EXCEPT ![u] = e]
        <5>1. PICK handle, bio : handle = Do(r).handle /\ bio = Do(r).bio
          OBVIOUS
        <5>2. d = UpdateUserProfile(db, u, handle, bio)
          BY <4>2, <5>1
        <5>3. e = ProfileOf(db.user[u], handle, bio)
          BY <4>4, <5>1 DEF ProfileOf
        <5> QED BY <1>0, <5>2, <5>3, ProfileRow
      <4>7. Only(d, db', {"told"})
        BY <4>3, <4>6, ToldOnly DEF Only
      <4>8. Only(db, db', {"user", "told"}) /\ db'.user = [db.user EXCEPT ![u] = e]
        BY <4>6, <4>7 DEF Only, TableNames
      <4>9. u \in DOMAIN db.user => DOMAIN e = DOMAIN db.user[u] /\ e.email = db.user[u].email
        BY <1>0, <4>4 DEF IsTables
      <4> QED BY <1>0, <4>8, <4>9, RewritesUser
    <3> QED BY <3>1, <3>2
  <2> QED BY <2>1, <2>2, <2>3, RewriteInv
<1>5. ASSUME DeleteKey(r) PROVE Inv'
  <2>1. Turn(r, {"revoke key"}, {"done"})
    BY <1>0, <1>5, AccountTurns
  <2>2. {"revoke key"} \cap {"new", "done"} = {}
    OBVIOUS
  <2>3. Rewrites
    <3>1. CASE Refuse(r)
      BY <3>1, NoWrite
    <3>2. CASE Commit(r, RevokeAPIKeyByOwner(db, Do(r).key, Caller(r).user))
      <4>1. PICK k : k = Do(r).key
        OBVIOUS
      <4>2. db' = db \/ db' = [db EXCEPT !.key[k].live = FALSE]
        BY <3>2, <4>1 DEF Commit, RevokeAPIKeyByOwner
      <4>3. CASE db' = db
        BY <1>0, <4>3, SameRewrites
      <4>4. CASE db' = [db EXCEPT !.key[k].live = FALSE]
        <5>1. PICK e : e = [db.key[k] EXCEPT !.live = FALSE]
          OBVIOUS
        <5>2. db' = [db EXCEPT !.key = [db.key EXCEPT ![k] = e]]
          BY <1>0, <4>4, <5>1 DEF IsTables, TableNames
        <5>3. Only(db, db', {"key"}) /\ db'.key = [db.key EXCEPT ![k] = e]
          BY <1>0, <5>2 DEF Only, IsTables, TableNames
        <5>4. k \in DOMAIN db.key => DOMAIN e = DOMAIN db.key[k] /\ e.user = db.key[k].user
          BY <1>0, <5>1 DEF IsTables
        <5> QED BY <1>0, <5>3, <5>4 DEF IsTables, Only, TableNames, Rewrites
      <4> QED BY <4>2, <4>3, <4>4
    <3> QED BY <1>5, <3>1, <3>2 DEF DeleteKey
  <2> QED BY <2>1, <2>2, <2>3, RewriteInv
<1>6. ASSUME PatchAgent(r) PROVE Inv'
  <2>1. Turn(r, {"update agent"}, {"done"})
    BY <1>0, <1>6, AccountTurns
  <2>2. {"update agent"} \cap {"new", "done"} = {}
    OBVIOUS
  <2>3. Rewrites
    <3>1. CASE Refuse(r) \/ Fails(r)
      BY <3>1, NoWrite
    <3>2. CASE ~(Refuse(r) \/ Fails(r))
      <4> QED BY <1>0, <1>6, <3>2, PatchAgentWrites
    <3> QED BY <3>1, <3>2
  <2> QED BY <2>1, <2>2, <2>3, RewriteInv
<1>7. ASSUME PatchConversation(r) PROVE Inv'
  <2>1. Turn(r, {"update room"}, {"done"})
    BY <1>0, <1>7, MessageTurns
  <2>2. {"update room"} \cap {"new", "done"} = {}
    OBVIOUS
  <2>3. Rewrites
    BY <1>0, <1>7, PatchRoomWrites
  <2> QED BY <2>1, <2>2, <2>3, RewriteInv
<1>8. ASSUME PatchMessage(r) PROVE Inv'
  <2>1. Turn(r, {"edit"}, {"done"})
    BY <1>0, <1>8, MessageTurns
  <2>2. {"edit"} \cap {"new", "done"} = {}
    OBVIOUS
  <2>3. Rewrites
    <3>1. PICK m : m = Do(r).message
      OBVIOUS
    <3>2. PICK d : d = UpdateMessageContent(db, m)
      OBVIOUS
    <3>3. db' = InsertInternalEvent(d, r, "conversation", Got(r), db.room[Got(r)].space)
      BY <1>8, <3>1, <3>2 DEF PatchMessage, Commit
    <3>4. PICK e : e = [db.message[m] EXCEPT !.body = "edited"]
      OBVIOUS
    <3>5. d = [db EXCEPT !.message = [db.message EXCEPT ![m] = e]]
      BY <1>0, <3>2, <3>4 DEF UpdateMessageContent, IsTables, TableNames
    <3> QED BY <1>0, <3>3, <3>4, <3>5, MessageRewritten
  <2> QED BY <2>1, <2>2, <2>3, RewriteInv
<1>9. ASSUME DeleteMessage(r) PROVE Inv'
  <2>1. Turn(r, {"delete"}, {"done"})
    BY <1>0, <1>9, MessageTurns
  <2>2. {"delete"} \cap {"new", "done"} = {}
    OBVIOUS
  <2>3. Rewrites
    <3>1. PICK m : m = Do(r).message
      OBVIOUS
    <3>2. PICK d : d = SoftDeleteMessage(db, m)
      OBVIOUS
    <3>3. db' = InsertInternalEvent(d, r, "conversation", Got(r), db.room[Got(r)].space)
      BY <1>9, <3>1, <3>2 DEF DeleteMessage, Commit
    <3>4. PICK e : e = [db.message[m] EXCEPT !.deleted = TRUE]
      OBVIOUS
    <3>5. d = [db EXCEPT !.message = [db.message EXCEPT ![m] = e]]
      BY <1>0, <3>2, <3>4 DEF SoftDeleteMessage, IsTables, TableNames
    <3> QED BY <1>0, <3>3, <3>4, <3>5, MessageRewritten
  <2> QED BY <2>1, <2>2, <2>3, RewriteInv
<1>10. ASSUME PutReadState(r) PROVE Inv'
  <2>1. Turn(r, {"mark read"}, {"done"})
    BY <1>0, <1>10, MessageTurns
  <2>2. {"mark read"} \cap {"new", "done"} = {}
    OBVIOUS
  <2>3. Rewrites
    <3>0. PICK id, row : id = <<Do(r).room, Caller(r).user>> /\ row = Do(r).message
      OBVIOUS
    <3>1. db' = Add(db, "read", id, row)
      BY <1>10, <3>0 DEF PutReadState, Commit, UpsertConversationRead
    <3>2. "read" \in TableNames /\ DOMAIN db = TableNames
      BY <1>0 DEF TableNames, IsTables
    <3>3. Only(db, db', {"read"})
      BY <3>1, <3>2, AddOnly DEF AddsRow
    <3>4. Only(db, db', {"told", "state", "read", "event", "clock"})
      BY <3>3 DEF Only
    <3> QED BY <1>0, <3>4, RewritesOther
  <2> QED BY <2>1, <2>2, <2>3, RewriteInv
<1>11. ASSUME PatchWorkspace(r) PROVE Inv'
  <2>1. Turn(r, {"patchWorkspace"}, {"done"})
    BY <1>0, <1>11, MessageTurns
  <2>2. {"patchWorkspace"} \cap {"new", "done"} = {}
    OBVIOUS
  <2>3. Rewrites
    <3>1. CASE Refuse(r) \/ Fails(r)
      BY <3>1, NoWrite
    <3>2. CASE ~(Refuse(r) \/ Fails(r))
      <4>1. PICK w : w = Do(r).space
        OBVIOUS
      <4>2. PICK d : d = UpdateWorkspace(db, w, Do(r).slug)
        OBVIOUS
      <4>3. db' = InsertInternalEvent(d, r, "workspace", w, w)
        BY <1>11, <3>2, <4>1, <4>2 DEF PatchWorkspace, Commit
      <4>4. Only(db, d, {"space"}) /\ DOMAIN d.space = DOMAIN db.space
        BY <1>0, <4>2 DEF Only, IsTables, TableNames, UpdateWorkspace
      <4>5. Only(d, db', {"told"})
        BY <4>3, <4>4, ToldOnly DEF Only
      <4>6. Only(db, db', {"space", "told"}) /\ DOMAIN db'.space = DOMAIN db.space
        BY <4>4, <4>5 DEF Only, TableNames
      <4> QED BY <1>0, <4>6 DEF IsTables, Only, TableNames, Rewrites
    <3> QED BY <3>1, <3>2
  <2> QED BY <2>1, <2>2, <2>3, RewriteInv
<1>12. ASSUME RefuseSubscriptionKey(r) PROVE Inv'
  <2>1. Turn(r, {"check sub"}, {"done"})
    BY <1>0, <1>12, ReadTurns
  <2>2. {"check sub"} \cap {"new", "done"} = {}
    OBVIOUS
  <2>3. Rewrites
    BY <1>12, NoWrite DEF RefuseSubscriptionKey
  <2> QED BY <2>1, <2>2, <2>3, RewriteInv
<1>13. ASSUME PatchSubscription(r) PROVE Inv'
  <2>1. Turn(r, {"write sub"}, {"done"})
    BY <1>0, <1>13, ReadTurns
  <2>2. {"write sub"} \cap {"new", "done"} = {}
    OBVIOUS
  <2>3. Rewrites
    <3>1. PICK s : s = Do(r).sub
      OBVIOUS
    <3>2. PICK e : e = [db.sub[s] EXCEPT !.enabled = Do(r).enabled]
      OBVIOUS
    <3>3. db' = [db EXCEPT !.sub = [db.sub EXCEPT ![s] = e]]
      BY <1>0, <1>13, <3>1, <3>2 DEF PatchSubscription, Commit, UpdateEventSubscriptionEnabled, IsTables, TableNames
    <3>4. Only(db, db', {"sub"}) /\ db'.sub = [db.sub EXCEPT ![s] = e]
      BY <1>0, <3>3 DEF Only, IsTables, TableNames
    <3>5. s \in DOMAIN db.sub => DOMAIN e = DOMAIN db.sub[s]
      BY <1>0, <3>2 DEF IsTables
    <3> QED BY <1>0, <3>4, <3>5 DEF IsTables, Only, TableNames, Rewrites
  <2> QED BY <2>1, <2>2, <2>3, RewriteInv
<1>14. ASSUME DeleteSubscription(r) PROVE Inv'
  <2>1. Turn(r, {"write sub"}, {"done"})
    BY <1>0, <1>14, ReadTurns
  <2>2. {"write sub"} \cap {"new", "done"} = {}
    OBVIOUS
  <2>3. Rewrites
    <3>1. db' = [db EXCEPT !.sub = [s \in DOMAIN db.sub \ {Do(r).sub} |-> db.sub[s]]]
      BY <1>14 DEF DeleteSubscription, Commit, DeleteEventSubscription
    <3>2. /\ Only(db, db', {"sub"}) /\ DOMAIN db'.sub \subseteq DOMAIN db.sub
          /\ \A s \in DOMAIN db'.sub : db'.sub[s] = db.sub[s]
      BY <1>0, <3>1 DEF Only, IsTables, TableNames
    <3> QED BY <1>0, <3>2 DEF IsTables, Only, TableNames, Rewrites
  <2> QED BY <2>1, <2>2, <2>3, RewriteInv
<1> QED BY <1>1, <1>2, <1>3, <1>4, <1>5, <1>6, <1>7, <1>8, <1>9, <1>10, <1>11, <1>12, <1>13, <1>14

\* A request inserts its rows, opens no session and makes no agent.
LEMMA InsertInv ==
  ASSUME Inv, NEW r \in Request, NEW from, Turn(r, from, {"done"}), from \cap {"new", "done"} = {},
         scene' = scene, churn' = churn, Grown({r}), SessionsKept, UsersKept, AgentsKept
  PROVE  Inv'
<1>1. {r} \subseteq Request /\ {r} \subseteq {r}
  OBVIOUS
<1>2. CodesOK'
  BY <1>1, SessionsKeptOK
<1>3. PeopleOK'
  BY UsersKeptOK
<1>4. KeysOK' /\ UsesOwn(r)
  BY AgentsKeptOK, UsedKept
<1> QED BY <1>1, <1>2, <1>3, <1>4, EndInv

\* The caller of a handler that has just been authenticated is a user.
LEMMA CallerThere ==
  ASSUME Inv, NEW r \in Request, req[r].pc \notin Steps \cup Unauthenticated
  PROVE  Caller(r).user \in DOMAIN db.user
BY DEF Inv, RequestOK

LEMMA NotThere ==
  ASSUME Inv, NEW r \in Request, req[r].pc \notin {"done", "send code"}, NEW t \in NamedByRequest
  PROVE  r \notin DOMAIN db[t]
BY DEF Inv, Fresh

LEMMA CreatedChallenge ==
  ASSUME NEW d, NEW id, NEW email, NEW code
  PROVE  \E row : /\ DOMAIN row = {"email", "code", "used", "expired", "at"}
                  /\ CreateEmailLoginChallenge(d, id, email, code) = Add(d, "challenge", id, row)
<1>1. ASSUME NEW at
      PROVE  DOMAIN [email |-> email, code |-> code, used |-> FALSE, expired |-> FALSE, at |-> at]
               = {"email", "code", "used", "expired", "at"}
  OBVIOUS
<1> QED BY <1>1, Zenon DEF CreateEmailLoginChallenge

\* The rows of a message that is posted.
LEMMA MessageRows ==
  ASSUME IsTables(db), DOMAIN db = TableNames, NEW r, CreateMessageTx(r), NEW c, c = Do(r).room, NEW row,
         row = [room |-> c, author |-> Caller(r).user, at |-> Got(r), body |-> "posted", deleted |-> FALSE]
  PROVE  /\ Only(db, db', {"message", "room", "told"}) /\ DOMAIN db'.message = DOMAIN db.message \cup {r}
         /\ db'.message[r] = row
         /\ \A x \in DOMAIN db.message \ {r} : db'.message[x] = db.message[x]
         /\ DOMAIN db'.room = DOMAIN db.room
         /\ \A x \in DOMAIN db.room : /\ DOMAIN db'.room[x] = DOMAIN db.room[x]
              /\ db'.room[x].space = db.room[x].space /\ db'.room[x].policy = db.room[x].policy
         /\ TellsOf(db, db', c, db.room[c].space)
<1>1. PICK posted : posted = Add(db, "message", r, row)
  OBVIOUS
<1>2. PICK touched : touched = [posted EXCEPT !.room[c].last = Got(r)]
  OBVIOUS
<1>3. db' = InsertInternalEvent(touched, r, "conversation", c, db.room[c].space)
  BY <1>1, <1>2 DEF CreateMessageTx, Commit, CreateMessage, TouchConversationLastMessage
<1>4. "message" \in TableNames
  BY DEF TableNames
<1>5. /\ Only(db, posted, {"message"}) /\ DOMAIN posted["message"] = DOMAIN db["message"] \cup {r}
      /\ posted["message"][r] = row
      /\ \A x \in DOMAIN db["message"] \ {r} : posted["message"][x] = db["message"][x]
  <2>1. AddsRow(db, posted, "message", r, row)
    BY <1>1, <1>4, AddOnly
  <2> QED BY <2>1 DEF AddsRow
<1>6. Only(posted, touched, {"room"}) /\ touched.room = [posted.room EXCEPT ![c].last = Got(r)]
  BY <1>2, <1>5 DEF Only, TableNames
<1>7. Only(touched, db', {"told"})
  BY <1>3, <1>6, ToldOnly DEF Only
<1>8. /\ Only(db, db', {"message", "room", "told"}) /\ DOMAIN db'.message = DOMAIN db.message \cup {r}
      /\ db'.message[r] = row
      /\ \A x \in DOMAIN db.message \ {r} : db'.message[x] = db.message[x]
      /\ db'.room = [db.room EXCEPT ![c].last = Got(r)]
  BY <1>5, <1>6, <1>7 DEF Only, TableNames
<1>9. Only(db, touched, {"message", "room"})
  BY <1>5, <1>6 DEF Only
<1>10. TellsOf(db, db', c, db.room[c].space)
  <2>1. touched.told = db.told /\ DOMAIN touched = TableNames
    BY <1>9 DEF Only, TableNames
  <2> QED BY <1>3, <2>1, ToldOf
<1>11. DOMAIN db'.room = DOMAIN db.room /\ \A x \in DOMAIN db.room : DOMAIN db'.room[x] = DOMAIN db.room[x]
         /\ db'.room[x].space = db.room[x].space /\ db'.room[x].policy = db.room[x].policy
  BY <1>8 DEF IsTables
<1> QED BY <1>8, <1>10, <1>11

\* The rows of a workspace that is created: its owner, and its first conversation.
LEMMA WorkspaceRows ==
  ASSUME DOMAIN db = TableNames, NEW r, CreateWorkspaceTx(r), ~(Refuse(r) \/ Fails(r)), NEW u, u = Caller(r).user
  PROVE  /\ Only(db, db', {"space", "member", "room", "told"})
         /\ DOMAIN db'.space = DOMAIN db.space \cup {r} /\ DOMAIN db'.member = DOMAIN db.member \cup {<<r, u>>}
         /\ DOMAIN db'.room = DOMAIN db.room \cup {r}
         /\ DOMAIN db'.room[r] = {"space", "policy", "creator", "title", "archived", "last"} /\ db'.room[r].space = r
         /\ \A x \in DOMAIN db.room \ {r} : db'.room[x] = db.room[x]
         /\ TellsOf(db, db', r, r)
<1>1. PICK space : space = Add(db, "space", r, Do(r).slug)
  OBVIOUS
<1>2. PICK owner : owner = <<r, u>>
  OBVIOUS
<1>3. PICK founded : founded = Add(space, "member", owner, "owner")
  OBVIOUS
<1>4. PICK row : row = [space |-> r, policy |-> "workspace", creator |-> u, title |-> "none",
                        archived |-> FALSE, last |-> founded.clock]
  OBVIOUS
<1>5. PICK opened : opened = Add(founded, "room", r, row)
  OBVIOUS
<1>6. PICK told : told = InsertInternalEvent(opened, r, "workspace", r, r)
  OBVIOUS
<1>7. db' = InsertInternalEvent(told, r, "conversation", r, r)
  BY <1>1, <1>2, <1>3, <1>4, <1>5, <1>6 DEF CreateWorkspaceTx, Commit,
     CreateWorkspace, CreateWorkspaceMembership, CreateConversation
<1>8. {"space", "member", "room"} \subseteq TableNames
  BY DEF TableNames
<1>9. /\ Only(db, space, {"space"}) /\ DOMAIN space["space"] = DOMAIN db["space"] \cup {r}
      /\ space["space"][r] = Do(r).slug
      /\ \A x \in DOMAIN db["space"] \ {r} : space["space"][x] = db["space"][x]
  <2>1. PICK slug : slug = Do(r).slug
    OBVIOUS
  <2>2. space = Add(db, "space", r, slug)
    BY <1>1, <2>1
  <2>3. AddsRow(db, space, "space", r, slug)
    BY <1>8, <2>2, AddOnly
  <2> QED BY <2>1, <2>3 DEF AddsRow
<1>10. /\ Only(space, founded, {"member"}) /\ DOMAIN founded["member"] = DOMAIN space["member"] \cup {owner}
       /\ founded["member"][owner] = "owner"
       /\ \A x \in DOMAIN space["member"] \ {owner} : founded["member"][x] = space["member"][x]
  <2>1. AddsRow(space, founded, "member", owner, "owner")
    BY <1>3, <1>8, <1>9, AddOnly DEF Only
  <2> QED BY <2>1 DEF AddsRow
<1>11. /\ Only(founded, opened, {"room"}) /\ DOMAIN opened["room"] = DOMAIN founded["room"] \cup {r}
       /\ opened["room"][r] = row
       /\ \A x \in DOMAIN founded["room"] \ {r} : opened["room"][x] = founded["room"][x]
  <2>1. AddsRow(founded, opened, "room", r, row)
    BY <1>5, <1>8, <1>10, AddOnly DEF Only
  <2> QED BY <2>1 DEF AddsRow
<1>12. Only(opened, told, {"told"})
  BY <1>6, <1>11, ToldOnly DEF Only
<1>13. Only(told, db', {"told"})
  BY <1>7, <1>12, ToldOnly DEF Only
<1>14. Only(db, db', {"space", "member", "room", "told"})
  BY <1>9, <1>10, <1>11, <1>12, <1>13 DEF Only
<1>15. /\ DOMAIN db'.space = DOMAIN db.space \cup {r} /\ DOMAIN db'.member = DOMAIN db.member \cup {owner}
       /\ DOMAIN db'.room = DOMAIN db.room \cup {r} /\ db'.room[r] = row
       /\ \A x \in DOMAIN db.room \ {r} : db'.room[x] = db.room[x]
  <2>1. db'.space = space.space
    BY <1>10, <1>11, <1>12, <1>13 DEF Only, TableNames
  <2>2. db'.member = founded.member /\ space.member = db.member
    BY <1>9, <1>11, <1>12, <1>13 DEF Only, TableNames
  <2>3. db'.room = opened.room /\ founded.room = db.room
    BY <1>9, <1>10, <1>12, <1>13 DEF Only, TableNames
  <2> QED BY <1>9, <1>10, <1>11, <2>1, <2>2, <2>3
<1>16. DOMAIN row = {"space", "policy", "creator", "title", "archived", "last"} /\ row.space = r
  BY <1>4
<1>17. TellsOf(db, db', r, r)
  <2>1. opened.told = db.told /\ DOMAIN opened = TableNames
    BY <1>9, <1>10, <1>11 DEF Only, TableNames
  <2>2. DOMAIN told = TableNames
    BY <1>12 DEF Only
  <2>3. TellsOf(db, told, r, r)
    BY <1>6, <2>1, ToldOf
  <2> QED BY <1>7, <2>2, <2>3, ToldOf
<1> QED BY <1>2, <1>14, <1>15, <1>16, <1>17

LEMMA InsertsInv ==
  ASSUME Inv, NEW r \in Request, scene' = scene, churn' = churn
  PROVE  /\ CreateKey(r) => Inv'
         /\ CreateMessageTx(r) => Inv'
         /\ CreateWorkspaceTx(r) => Inv'
         /\ CreateSubscription(r) => Inv'
         /\ StartEmailLogin(r) => Inv'
<1>0. RequestShape(r) /\ IsTables(db) /\ References(db) /\ DOMAIN db = TableNames
  BY ShapeOK DEF Inv, IsTables
<1>z. DOMAIN db = TableNames
  BY <1>0
<1>1. ASSUME CreateKey(r) PROVE Inv'
  <2>1. Turn(r, {"createKey"}, {"done"})
    BY <1>0, <1>1, AccountTurns
  <2>2. {"createKey"} \cap {"new", "done"} = {}
    OBVIOUS
  <2>3. CASE Refuse(r)
    BY <2>1, <2>2, <2>3, NoWrite, RewriteInv
  <2>4. CASE ~Refuse(r)
    <3>1. PICK row : row = [user |-> Caller(r).user, space |-> Do(r).space, live |-> TRUE]
      OBVIOUS
    <3>2. db' = Add(db, "key", r, row)
      BY <1>1, <2>4, <3>1 DEF CreateKey, Commit, CreateAPIKey
    <3>3. "key" \in TableNames
      BY DEF TableNames
    <3>4. /\ Only(db, db', {"key"}) /\ DOMAIN db'["key"] = DOMAIN db["key"] \cup {r} /\ db'["key"][r] = row
          /\ \A x \in DOMAIN db["key"] \ {r} : db'["key"][x] = db["key"][x]
      <4>1. AddsRow(db, db', "key", r, row)
        BY <1>z, <3>2, <3>3, AddOnly
      <4> QED BY <4>1 DEF AddsRow
    <3>5. row.user \in DOMAIN db.user /\ DOMAIN row = {"user", "space", "live"}
      <4>1. req[r].pc \notin Steps \cup Unauthenticated
        BY <1>1 DEF CreateKey, At, Steps, Unauthenticated
      <4> QED BY <3>1, <4>1, CallerThere
    <3>6. IsTables(db') /\ References(db')
      <4>1. IsTables(db')
        BY <1>0, <3>4, <3>5 DEF IsTables, Only, TableNames
      <4>2. References(db')
        BY <1>0, <3>4, <3>5 DEF References, Only, TableNames
      <4> QED BY <4>1, <4>2
    <3>7. Grown({r})
      BY <3>4, <3>6 DEF Grown, NamedByRequest, Only, TableNames
    <3>8. SessionsKept /\ UsersKept /\ AgentsKept
      BY <3>4 DEF SessionsKept, UsersKept, AgentsKept, Only, TableNames
    <3> QED BY <2>1, <2>2, <3>7, <3>8, InsertInv
  <2> QED BY <2>3, <2>4
<1>2. ASSUME CreateMessageTx(r) PROVE Inv'
  <2>1. Turn(r, {"insert message"}, {"done"})
    BY <1>0, <1>2, MessageTurns
  <2>2. {"insert message"} \cap {"new", "done"} = {}
    OBVIOUS
  <2>3. PICK c : c = Do(r).room
    OBVIOUS
  <2>4. PICK row : row = [room |-> c, author |-> Caller(r).user, at |-> Got(r), body |-> "posted", deleted |-> FALSE]
    OBVIOUS
  <2>12. /\ Only(db, db', {"message", "room", "told"}) /\ DOMAIN db'.message = DOMAIN db.message \cup {r}
         /\ db'.message[r] = row
         /\ \A x \in DOMAIN db.message \ {r} : db'.message[x] = db.message[x]
         /\ DOMAIN db'.room = DOMAIN db.room
         /\ \A x \in DOMAIN db.room :
              DOMAIN db'.room[x] = DOMAIN db.room[x] /\ db'.room[x].space = db.room[x].space
    BY <1>0, <1>2, <2>3, <2>4, MessageRows
  <2>14. c \in DOMAIN db.room
    BY <2>1, <2>3 DEF Inv, StepOK, RoomOK, Turn
  <2>15. DOMAIN row = {"room", "author", "at", "body", "deleted"} /\ row.room = c
    BY <2>4
  <2>16. IsTables(db')
    BY <1>0, <2>12, <2>15 DEF IsTables, Only, TableNames
  <2>17. References(db')
    BY <1>0, <2>12, <2>14, <2>15 DEF References, Only, TableNames
  <2>18. Grown({r})
    BY <2>12, <2>16, <2>17 DEF Grown, NamedByRequest, Only, TableNames
  <2>19. SessionsKept /\ UsersKept /\ AgentsKept
    BY <2>12 DEF SessionsKept, UsersKept, AgentsKept, Only, TableNames
  <2> QED BY <2>1, <2>2, <2>18, <2>19, InsertInv
<1>3. ASSUME CreateWorkspaceTx(r) PROVE Inv'
  <2>1. Turn(r, {"createWorkspace"}, {"done"})
    BY <1>0, <1>3, MessageTurns
  <2>2. {"createWorkspace"} \cap {"new", "done"} = {}
    OBVIOUS
  <2>3. CASE Refuse(r) \/ Fails(r)
    BY <2>1, <2>2, <2>3, NoWrite, RewriteInv
  <2>4. CASE ~(Refuse(r) \/ Fails(r))
    <3>1. PICK u : u = Caller(r).user
      OBVIOUS
    <3>3. PICK owner : owner = <<r, u>>
      OBVIOUS
    <3>15. Only(db, db', {"space", "member", "room", "told"})
      BY <1>z, <1>3, <2>4, <3>1, WorkspaceRows
    <3>16. /\ DOMAIN db'.space = DOMAIN db.space \cup {r} /\ DOMAIN db'.member = DOMAIN db.member \cup {owner}
           /\ DOMAIN db'.room = DOMAIN db.room \cup {r}
           /\ DOMAIN db'.room[r] = {"space", "policy", "creator", "title", "archived", "last"} /\ db'.room[r].space = r
           /\ \A x \in DOMAIN db.room \ {r} : db'.room[x] = db.room[x]
      BY <1>z, <1>3, <2>4, <3>1, <3>3, WorkspaceRows
    <3>17. u \in DOMAIN db.user /\ r \notin DOMAIN db.room
      <4>1. req[r].pc \notin Steps \cup Unauthenticated /\ req[r].pc \notin {"done", "send code"}
        BY <1>3 DEF CreateWorkspaceTx, At, Steps, Unauthenticated
      <4>2. r \notin DOMAIN db["room"]
        BY <4>1, NotThere DEF NamedByRequest
      <4> QED BY <3>1, <4>1, <4>2, CallerThere
    <3>19. IsTables(db')
      BY <1>0, <3>15, <3>16 DEF IsTables, Only, TableNames
    <3>20. References(db')
      <4>1. DOMAIN db'.member \subseteq (DOMAIN db'.space) \X (DOMAIN db'.user)
        BY <1>0, <3>3, <3>15, <3>16, <3>17 DEF References, Only, TableNames
      <4>2. db'.seat \subseteq (DOMAIN db'.room) \X (DOMAIN db'.user)
        BY <1>0, <3>15, <3>16 DEF References, Only, TableNames
      <4>3. \A c \in DOMAIN db'.room : db'.room[c].space \in DOMAIN db'.space \cup {None}
        BY <1>0, <3>15, <3>16 DEF References, Only, TableNames
      <4>4. \A m \in DOMAIN db'.message : db'.message[m].room \in DOMAIN db'.room
        BY <1>0, <3>15, <3>16 DEF References, Only, TableNames
      <4> QED BY <1>0, <3>15, <4>1, <4>2, <4>3, <4>4 DEF References, Only, TableNames
    <3>21. Grown({r})
      BY <3>15, <3>16, <3>19, <3>20 DEF Grown, NamedByRequest, Only, TableNames
    <3>22. SessionsKept /\ UsersKept /\ AgentsKept
      BY <3>15 DEF SessionsKept, UsersKept, AgentsKept, Only, TableNames
    <3> QED BY <2>1, <2>2, <3>21, <3>22, InsertInv
  <2> QED BY <2>3, <2>4
<1>4. ASSUME CreateSubscription(r) PROVE Inv'
  <2>1. Turn(r, {"insert sub"}, {"done"})
    BY <1>0, <1>4, ReadTurns
  <2>2. {"insert sub"} \cap {"new", "done"} = {}
    OBVIOUS
  <2>3. PICK row : row = [owner |-> Caller(r).user, space |-> Got(r), about |-> Do(r).about, enabled |-> TRUE]
    OBVIOUS
  <2>4. db' = Add(db, "sub", r, row)
    BY <1>4, <2>3 DEF CreateSubscription, Commit, CreateEventSubscription
  <2>5. "sub" \in TableNames
    BY DEF TableNames
  <2>6. /\ Only(db, db', {"sub"}) /\ DOMAIN db'["sub"] = DOMAIN db["sub"] \cup {r} /\ db'["sub"][r] = row
        /\ \A x \in DOMAIN db["sub"] \ {r} : db'["sub"][x] = db["sub"][x]
    <3>1. AddsRow(db, db', "sub", r, row)
      BY <1>z, <2>4, <2>5, AddOnly
    <3> QED BY <3>1 DEF AddsRow
  <2>7. DOMAIN row = {"owner", "space", "about", "enabled"}
    BY <2>3
  <2>8. IsTables(db')
    BY <1>0, <2>6, <2>7 DEF IsTables, Only, TableNames
  <2>9. References(db')
    BY <1>0, <2>6 DEF References, Only, TableNames
  <2>10. Grown({r})
    BY <2>6, <2>8, <2>9 DEF Grown, NamedByRequest, Only, TableNames
  <2>11. SessionsKept /\ UsersKept /\ AgentsKept
    BY <2>6 DEF SessionsKept, UsersKept, AgentsKept, Only, TableNames
  <2> QED BY <2>1, <2>2, <2>10, <2>11, InsertInv
<1>5. ASSUME StartEmailLogin(r) PROVE Inv'
  <2>1. Turn(r, {"startEmail"}, {"send code"})
    BY <1>0, <1>5, SignInTurns
  <2>2. req' = [req EXCEPT ![r] = req'[r]] /\ req[r].pc = "startEmail" /\ req'[r].pc = "send code"
    BY <2>1 DEF Turn
  <2>3. PICK email : email = Do(r).email
    OBVIOUS
  <2>4. PICK code : db' = CreateEmailLoginChallenge(db, r, email, code)
    BY <1>5, <2>3 DEF StartEmailLogin
  <2>5. PICK row : DOMAIN row = {"email", "code", "used", "expired", "at"} /\ db' = Add(db, "challenge", r, row)
    BY <2>4, CreatedChallenge
  <2>6. "challenge" \in TableNames
    BY DEF TableNames
  <2>7. /\ Only(db, db', {"challenge"}) /\ DOMAIN db'["challenge"] = DOMAIN db["challenge"] \cup {r}
        /\ db'["challenge"][r] = row
        /\ \A x \in DOMAIN db["challenge"] \ {r} : db'["challenge"][x] = db["challenge"][x]
    <3>1. AddsRow(db, db', "challenge", r, row)
      BY <1>z, <2>5, <2>6, AddOnly
    <3> QED BY <3>1 DEF AddsRow
  <2>8. DOMAIN row = {"email", "code", "used", "expired", "at"}
    BY <2>5
  <2>9. r \notin DOMAIN db["challenge"]
    <3>1. req[r].pc \notin {"done", "send code"} /\ "challenge" \in NamedByRequest
      BY <2>2 DEF NamedByRequest
    <3> QED BY <3>1, NotThere
  <2>10. IsTables(db')
    BY <1>0, <2>7, <2>8 DEF IsTables, Only, TableNames
  <2>11. References(db')
    BY <1>0, <2>7 DEF References, Only, TableNames
  <2>12. Grown({r})
    BY <2>7, <2>9, <2>10, <2>11 DEF Grown, NamedByRequest, Only, TableNames
  <2>13. SessionsKept /\ UsersKept /\ AgentsKept
    BY <2>7, <2>9 DEF SessionsKept, UsersKept, AgentsKept, Only, TableNames
  <2>14. {r} \subseteq Request
    OBVIOUS
  <2>15. CodesOK'
    BY <2>12, <2>13, <2>14, SessionsKeptOK
  <2>16. PeopleOK'
    BY <2>12, <2>13, UsersKeptOK
  <2>17. KeysOK' /\ UsesOwn(r)
    BY <2>13, AgentsKeptOK, UsedKept
  <2>18. db'.user = db.user /\ db'.room = db.room
    BY <2>7 DEF Only, TableNames
  <2>19. StepOK(r)'
    <3>1. req'[r].pc \in PlainSteps
      BY <2>2 DEF PlainSteps
    <3> QED BY <3>1, PlainStep
  <2>20. RequestOK(r)'
    <3>1. "new" \notin {"startEmail"} /\ {"send code"} \subseteq Steps \ {"new"}
      BY DEF Steps
    <3> QED BY <2>1, <2>12, <3>1, TurnRequest
  <2>21. \A row_ \in req'[r].locks : row_ \in req[r].locks \/ Free(r, row_)
    BY <2>1 DEF Turn
  <2>22. {r} = {} \/ ({r} = {r} /\ req'[r].pc \in {"done", "send code"})
    BY <2>2
  <2>23. req[r].pc # "done" /\ (req[r].pc = "send code" => req'[r].pc = "done")
    BY <2>2
  <2> QED BY <2>2, <2>12, <2>15, <2>16, <2>17, <2>18, <2>19, <2>20, <2>21, <2>22, <2>23, StepInv
<1> QED BY <1>1, <1>2, <1>3, <1>4, <1>5

-----------------------------------------------------------------------------
(***************************************************************************)
(* Signing in: a session is opened for a user that was found, or for one   *)
(* that is made with it.                                                   *)
(***************************************************************************)

\* d becomes the tables with a session of u.
Opens(r, d, u, by) == \E row :
  DOMAIN row = {"user", "live", "by"} /\ row.user = u /\ row.by = by /\ AddsRow(d, db', "session", r, row)

\* d becomes e, with a user of the address.
Joins(r, d, e, address) == \E row, x :
  /\ DOMAIN row = {"kind", "status", "email", "handle", "bio"} /\ row.email = address
  /\ AddsRow(d, x, "user", r, row) /\ Only(x, e, {"told"})

Address(r, email) == IF email = None THEN r ELSE email

LEMMA SessionOpened ==
  ASSUME NEW d, DOMAIN d = TableNames, NEW r, NEW u, NEW by, Commit(r, CreateAuthSession(d, r, u, by))
  PROVE  Opens(r, d, u, by)
<1>1. PICK row : row = [user |-> u, live |-> TRUE, by |-> by]
  OBVIOUS
<1>2. db' = Add(d, "session", r, row)
  BY <1>1, Zenon DEF Commit, CreateAuthSession
<1>3. AddsRow(d, db', "session", r, row)
  <2>1. "session" \in TableNames
    BY DEF TableNames
  <2> QED BY <1>2, <2>1, AddOnly
<1>4. DOMAIN row = {"user", "live", "by"} /\ row.user = u /\ row.by = by
  BY <1>1
<1> QED BY <1>3, <1>4 DEF Opens

LEMMA UserJoined ==
  ASSUME NEW d, DOMAIN d = TableNames, NEW r, NEW email, NEW e, e = InsertUserWithProfile(d, r, email)
  PROVE  Joins(r, d, e, Address(r, email)) /\ DOMAIN e = TableNames
<1>0. PICK address : address = Address(r, email)
  OBVIOUS
<1>1. PICK handle : handle = Handle(r, email)
  OBVIOUS
<1>2. PICK row : row = [kind |-> "human", status |-> "active", email |-> address, handle |-> handle, bio |-> "none"]
  OBVIOUS
<1>3. PICK x : x = Add(d, "user", r, row)
  OBVIOUS
<1>4. CreateUser(d, r, "human", address, handle)
        = Add(d, "user", r, [kind |-> "human", status |-> "active", email |-> address, handle |-> handle, bio |-> "none"])
  BY Zenon DEF CreateUser
<1>5. CreateUser(d, r, "human", address, handle) = x
  BY <1>2, <1>3, <1>4, Zenon
<1>6. e = InsertInternalEvent(CreateUser(d, r, "human", address, handle), r, "user", r, None)
  BY <1>0, <1>1, Zenon DEF InsertUserWithProfile, Address
<1>7. e = InsertInternalEvent(x, r, "user", r, None)
  BY <1>5, <1>6, Zenon
<1>8. AddsRow(d, x, "user", r, row)
  <2>1. "user" \in TableNames
    BY DEF TableNames
  <2> QED BY <1>3, <2>1, AddOnly
<1>9. Only(x, e, {"told"})
  BY <1>7, <1>8, ToldOnly DEF AddsRow, Only
<1>10. DOMAIN row = {"kind", "status", "email", "handle", "bio"} /\ row.email = address
  BY <1>2
<1> QED BY <1>0, <1>8, <1>9, <1>10 DEF Joins, Only

LEMMA SignInWrites ==
  ASSUME NEW r, NEW d, DOMAIN d = TableNames, NEW found, NEW email, NEW by, SignIn(r, d, found, email, by)
  PROVE  \/ Fails(r)
         \/ \E u \in found : Opens(r, d, u, by)
         \/ /\ found = {} /\ \A v \in DOMAIN db.user \ {r} : email = None \/ db.user[v].email # email
            /\ \E e : Joins(r, d, e, Address(r, email)) /\ Opens(r, e, r, by)
<1>1. CASE found # {}
  <2>1. PICK u \in found : Commit(r, CreateAuthSession(d, r, u, by))
    BY <1>1 DEF SignIn
  <2> QED BY <2>1, SessionOpened
<1>2. CASE found = {} /\ UserClash(db, r, email, Handle(r, email))
  BY <1>2 DEF SignIn
<1>3. CASE found = {} /\ ~UserClash(db, r, email, Handle(r, email))
  <2>1. PICK e : e = InsertUserWithProfile(d, r, email)
    OBVIOUS
  <2>2. Commit(r, CreateAuthSession(e, r, r, by))
    BY <1>3, <2>1 DEF SignIn
  <2>3. Joins(r, d, e, Address(r, email)) /\ DOMAIN e = TableNames
    BY <2>1, UserJoined
  <2>4. Opens(r, e, r, by)
    BY <2>2, <2>3, SessionOpened
  <2>5. \A v \in DOMAIN db.user \ {r} : email = None \/ db.user[v].email # email
    BY <1>3 DEF UserClash
  <2> QED BY <1>3, <2>3, <2>4, <2>5
<1> QED BY <1>1, <1>2, <1>3

\* The codes, states and accounts are as in d; u has a session, and has the
\* address if there is one.
Entered(r, d, u, by, email) ==
  /\ Only(d, db', {"session", "user", "told"})
  /\ DOMAIN db'.session = DOMAIN d.session \cup {r} /\ DOMAIN db'.session[r] = {"user", "live", "by"}
  /\ db'.session[r].user = u /\ db'.session[r].by = by
  /\ \A s \in DOMAIN d.session \ {r} : db'.session[s] = d.session[s]
  /\ u \in DOMAIN db'.user /\ (email # None => db'.user[u].email = email)
  /\ \A v \in DOMAIN d.user : v \in DOMAIN db'.user /\ db'.user[v] = d.user[v]
  /\ \/ db'.user = d.user
     \/ /\ u = r /\ DOMAIN db'.user = DOMAIN d.user \cup {r}
        /\ DOMAIN db'.user[r] = {"kind", "status", "email", "handle", "bio"}
        /\ db'.user[r].email = Address(r, email)
        /\ \A v \in DOMAIN d.user : email = None \/ d.user[v].email # email

LEMMA SignInEnters ==
  ASSUME Inv, NEW r \in Request, req[r].pc \notin {"done", "send code"},
         NEW d, Only(db, d, {"challenge", "state", "account"}), NEW found, NEW email, NEW by,
         \A u \in found : u \in DOMAIN db.user /\ (email # None => db.user[u].email = email),
         SignIn(r, d, found, email, by)
  PROVE  Fails(r) \/ \E u : Entered(r, d, u, by, email) /\ (u \in found \/ (found = {} /\ u = r))
<1>1. d.user = db.user /\ d.session = db.session /\ DOMAIN d = TableNames
  BY DEF Only, TableNames
<1>2. r \notin DOMAIN db.user
  <2>1. r \notin DOMAIN db["user"]
    BY NotThere DEF NamedByRequest
  <2> QED BY <2>1
<1>3. ASSUME NEW u \in found, Opens(r, d, u, by)
      PROVE  Entered(r, d, u, by, email)
  <2>1. PICK row : DOMAIN row = {"user", "live", "by"} /\ row.user = u /\ row.by = by /\ AddsRow(d, db', "session", r, row)
    BY <1>3 DEF Opens
  <2>2. db'.user = d.user
    BY <2>1 DEF AddsRow, Only, TableNames
  <2>3. Only(d, db', {"session", "user", "told"})
    BY <2>1 DEF AddsRow, Only
  <2>4. /\ DOMAIN db'.session = DOMAIN d.session \cup {r} /\ db'.session[r] = row
        /\ \A s \in DOMAIN d.session \ {r} : db'.session[s] = d.session[s]
    BY <2>1 DEF AddsRow
  <2>5. u \in DOMAIN db'.user /\ (email # None => db'.user[u].email = email)
    BY <1>1, <1>3, <2>2
  <2> QED BY <2>1, <2>2, <2>3, <2>4, <2>5 DEF Entered
<1>4. ASSUME NEW e, Joins(r, d, e, Address(r, email)), Opens(r, e, r, by),
             \A v \in DOMAIN db.user \ {r} : email = None \/ db.user[v].email # email
      PROVE  Entered(r, d, r, by, email)
  <2>1. PICK row : DOMAIN row = {"user", "live", "by"} /\ row.user = r /\ row.by = by /\ AddsRow(e, db', "session", r, row)
    BY <1>4 DEF Opens
  <2>2. PICK address : address = Address(r, email)
    OBVIOUS
  <2>3. PICK user, x : /\ DOMAIN user = {"kind", "status", "email", "handle", "bio"} /\ user.email = address
                       /\ AddsRow(d, x, "user", r, user) /\ Only(x, e, {"told"})
    BY <1>4, <2>2 DEF Joins
  <2>4. db'.user = x.user /\ e.session = d.session
    BY <2>1, <2>3 DEF AddsRow, Only, TableNames
  <2>5. Only(d, db', {"session", "user", "told"})
    BY <2>1, <2>3 DEF AddsRow, Only
  <2>6. DOMAIN db'.user = DOMAIN d.user \cup {r} /\ db'.user[r] = user /\ \A v \in DOMAIN d.user \ {r} : db'.user[v] = d.user[v]
    BY <2>3, <2>4 DEF AddsRow
  <2>7. /\ DOMAIN db'.session = DOMAIN d.session \cup {r} /\ db'.session[r] = row
        /\ \A s \in DOMAIN d.session \ {r} : db'.session[s] = d.session[s]
    BY <2>1, <2>4 DEF AddsRow
  <2>8. email # None => address = email
    BY <2>2 DEF Address
  <2>9. \A v \in DOMAIN d.user : v # r
    BY <1>1, <1>2
  <2> QED BY <1>1, <1>4, <2>1, <2>2, <2>3, <2>5, <2>6, <2>7, <2>8, <2>9 DEF Entered
<1> QED BY <1>3, <1>4, SignInWrites, <1>1

\* The addresses of the codes stay, and only who has locked a code uses it.
CodesFollow(r, d) ==
  /\ DOMAIN d.challenge = DOMAIN db.challenge
  /\ \A c \in DOMAIN db.challenge :
       /\ DOMAIN d.challenge[c] = DOMAIN db.challenge[c] /\ d.challenge[c].email = db.challenge[c].email
       /\ db.challenge[c].used => d.challenge[c].used
       /\ d.challenge[c].used => db.challenge[c].used \/ <<"challenge", c>> \in req[r].locks

\* The accounts stay, but for that of the identity that signs in.
AccountsFollow(d) == \A who \in DOMAIN d.account :
  \/ who \in DOMAIN db.account /\ d.account[who] = db.account[who]
  \/ /\ d.account[who] \in DOMAIN db'.user
     /\ EmailOf[who] # None => db'.user[d.account[who]].email = EmailOf[who]

\* What the session is opened for is a code that is used up by it, or an identity.
Vouches(d, by, email) ==
  \/ \E c \in DOMAIN db.challenge : /\ by = <<"code", c>> /\ db.challenge[c].email = email
                                    /\ ~db.challenge[c].used /\ d.challenge[c].used
  \/ \E who : by = <<"account", who>> /\ email = EmailOf[who]

LEMMA Coded ==
  ASSUME NEW d, NEW email, NEW c, Vouches(d, <<"code", c>>, email)
  PROVE  c \in DOMAIN db.challenge /\ ~db.challenge[c].used /\ d.challenge[c].used
<1>1. ASSUME NEW b, <<"code", c>> = <<"code", b>> PROVE c = b
  BY <1>1
<1>2. ASSUME NEW who, <<"code", c>> = <<"account", who>> PROVE FALSE
  BY <1>2
<1> QED BY <1>1, <1>2 DEF Vouches

\* What is left to show of a sign-in is of the code and of the account.
LEMMA EnteredInv ==
  ASSUME Inv, NEW r \in Request, NEW from, Turn(r, from, {"done"}), from \cap {"new", "done", "send code"} = {},
         scene' = scene, churn' = churn,
         NEW d, Only(db, d, {"challenge", "state", "account"}), NEW u, NEW by, NEW email, Entered(r, d, u, by, email),
         email \notin Request,
         CodesFollow(r, d), AccountsFollow(d), Vouches(d, by, email)
  PROVE  Inv'
<1>1. r \notin DOMAIN db.user /\ r \notin DOMAIN db.session
  <2>1. req[r].pc \notin {"done", "send code"}
    BY DEF Turn
  <2>2. r \notin DOMAIN db["user"] /\ r \notin DOMAIN db["session"]
    BY <2>1, NotThere DEF NamedByRequest
  <2> QED BY <2>2
<1>2. Only(db, db', {"challenge", "state", "account", "session", "user", "told"})
  BY DEF Only, Entered
<1>3. db'.challenge = d.challenge /\ db'.account = d.account /\ d.user = db.user /\ d.session = db.session
  BY DEF Only, Entered, TableNames
<1>4. /\ \A v \in DOMAIN db.user : v \in DOMAIN db'.user /\ db'.user[v] = db.user[v]
      /\ \A v \in DOMAIN db'.user : v \in DOMAIN db.user \/ v = r
      /\ u \in DOMAIN db'.user /\ (email # None => db'.user[u].email = email)
  BY <1>3 DEF Entered
<1>5. /\ DOMAIN db'.session = DOMAIN db.session \cup {r} /\ DOMAIN db'.session[r] = {"user", "live", "by"}
      /\ db'.session[r].user = u /\ db'.session[r].by = by
      /\ \A s \in DOMAIN db.session : s # r /\ db'.session[s] = db.session[s]
  BY <1>1, <1>3 DEF Entered
<1>6. IsTables(db) /\ References(db) /\ CodesOK /\ PeopleOK
  BY DEF Inv
<1>7. \A v \in DOMAIN db'.user : v \notin DOMAIN db.user =>
        /\ v = r /\ DOMAIN db'.user[v] = {"kind", "status", "email", "handle", "bio"}
        /\ db'.user[v].email = Address(r, email)
        /\ \A w \in DOMAIN db.user : email = None \/ db.user[w].email # email
  BY <1>3, <1>4 DEF Entered
<1>c. CodesFollow(r, d) /\ DOMAIN d.challenge = DOMAIN db.challenge
  BY DEF CodesFollow
<1>8. IsTables(db')
  <2>0. \A c \in DOMAIN db.challenge : DOMAIN d.challenge[c] = DOMAIN db.challenge[c]
    BY DEF CodesFollow
  <2>1. \A v \in DOMAIN db'.user : DOMAIN db'.user[v] = {"kind", "status", "email", "handle", "bio"}
    BY <1>4, <1>6, <1>7 DEF IsTables
  <2>2. IsTables(db) /\ DOMAIN db' = TableNames
    BY <1>2, <1>6 DEF Only
  <2>3. \A s \in DOMAIN db'.session : DOMAIN db'.session[s] = {"user", "live", "by"}
    BY <1>5, <2>2 DEF IsTables
  <2>4. \A c \in DOMAIN db'.challenge : DOMAIN db'.challenge[c] = {"email", "code", "used", "expired", "at"}
    BY <1>3, <1>c, <2>0, <2>2 DEF IsTables
  <2>5. /\ db'.key = db.key /\ db'.token = db.token /\ db'.agent = db.agent
        /\ db'.room = db.room /\ db'.message = db.message /\ db'.sub = db.sub
    BY <1>2 DEF Only, TableNames
  <2> QED BY <2>1, <2>2, <2>3, <2>4, <2>5 DEF IsTables
<1>9. References(db')
  <2>1. \A who \in DOMAIN db'.account : db'.account[who] \in DOMAIN db'.user
    BY <1>3, <1>4, <1>6 DEF References, AccountsFollow
  <2>2. \A s \in DOMAIN db'.session : db'.session[s].user \in DOMAIN db'.user
    BY <1>4, <1>5, <1>6 DEF References
  <2>3. DOMAIN db.user \subseteq DOMAIN db'.user
    BY <1>4
  <2>4. /\ db'.key = db.key /\ db'.token = db.token /\ db'.agent = db.agent /\ db'.member = db.member
        /\ db'.space = db.space /\ db'.seat = db.seat /\ db'.room = db.room /\ db'.message = db.message
    BY <1>2 DEF Only, TableNames
  <2>5. References(db)
    BY <1>6
  <2>6. DOMAIN db'.member \subseteq (DOMAIN db'.space) \X (DOMAIN db'.user)
    <3>1. DOMAIN db.member \subseteq (DOMAIN db.space) \X (DOMAIN db.user)
      BY <2>5 DEF References
    <3>2. (DOMAIN db.space) \X (DOMAIN db.user) \subseteq (DOMAIN db'.space) \X (DOMAIN db'.user)
      BY <2>3, <2>4
    <3> QED BY <2>4, <3>1, <3>2
  <2>7. db'.seat \subseteq (DOMAIN db'.room) \X (DOMAIN db'.user)
    <3>1. db.seat \subseteq (DOMAIN db.room) \X (DOMAIN db.user)
      BY <2>5 DEF References
    <3>2. (DOMAIN db.room) \X (DOMAIN db.user) \subseteq (DOMAIN db'.room) \X (DOMAIN db'.user)
      BY <2>3, <2>4
    <3> QED BY <2>4, <3>1, <3>2
  <2> QED BY <2>1, <2>2, <2>3, <2>4, <2>5, <2>6, <2>7 DEF References
<1>10. Grown({r})
  <2>1. \A t \in NamedByRequest : DOMAIN db'[t] \subseteq DOMAIN db[t] \cup {r}
    <3>1. DOMAIN db'["user"] \subseteq DOMAIN db["user"] \cup {r}
      BY <1>4
    <3>2. DOMAIN db'["session"] \subseteq DOMAIN db["session"] \cup {r}
      BY <1>5
    <3>3. DOMAIN db'["challenge"] \subseteq DOMAIN db["challenge"] \cup {r}
      BY <1>3, <1>c
    <3> QED BY <1>2, <3>1, <3>2, <3>3 DEF NamedByRequest, Only, TableNames
  <2>2. db'.token = db.token /\ db'.agent = db.agent /\ db'.room = db.room
    BY <1>2 DEF Only, TableNames
  <2> QED BY <1>3, <1>4, <1>8, <1>9, <2>1, <2>2 DEF Grown, CodesFollow
<1>11. UsesOwn(r)
  BY <1>3 DEF UsesOwn, CodesFollow
<1>12. CodesOK'
  <2>1. SUFFICES ASSUME NEW s \in DOMAIN db'.session, NEW c \in DOMAIN db.challenge, db'.session[s].by = <<"code", c>>
        PROVE  /\ d.challenge[c].used
               /\ \A t \in DOMAIN db'.session : db'.session[t].by = <<"code", c>> => t = s
    BY <1>3, <1>c DEF CodesOK
  <2>2. CASE s = r
    <3>0. by = <<"code", c>>
      BY <1>5, <2>1, <2>2
    <3>1. ~db.challenge[c].used /\ d.challenge[c].used
      BY <3>0, Coded
    <3>2. ASSUME NEW t \in DOMAIN db.session, db'.session[t].by = <<"code", c>> PROVE FALSE
      <4>1. db.session[t].by = <<"code", c>>
        BY <1>5, <3>2
      <4> QED BY <1>6, <3>1, <3>2, <4>1 DEF CodesOK
    <3> QED BY <1>5, <2>2, <3>1, <3>2
  <2>3. CASE s # r
    <3>1. s \in DOMAIN db.session /\ db.session[s].by = <<"code", c>>
      BY <1>5, <2>1, <2>3
    <3>2. db.challenge[c].used /\ \A t \in DOMAIN db.session : db.session[t].by = <<"code", c>> => t = s
      BY <1>6, <3>1 DEF CodesOK
    <3>3. by # <<"code", c>> /\ d.challenge[c].used
      <4>1. ASSUME by = <<"code", c>> PROVE FALSE
        BY <3>2, <4>1, Coded
      <4> QED BY <3>2, <4>1 DEF CodesFollow
    <3> QED BY <1>5, <3>2, <3>3
  <2> QED BY <2>2, <2>3
<1>13. PeopleOK'
  <2>1. \A v, w \in DOMAIN db'.user : db'.user[v].email # None /\ db'.user[v].email = db'.user[w].email => v = w
    <3>1. \A v \in DOMAIN db.user : db.user[v].email # Address(r, email) \/ \E w \in DOMAIN db.user : email # None /\ db.user[w].email = email
      <4>1. \A v \in DOMAIN db.user : db.user[v].email \in Request => db.user[v].email = v
        BY <1>6 DEF PeopleOK
      <4> QED BY <1>1, <4>1 DEF Address
    <3> QED BY <1>4, <1>6, <1>7, <3>1 DEF PeopleOK
  <2>2. \A v \in DOMAIN db'.user : db'.user[v].email \in Request => db'.user[v].email = v
    BY <1>4, <1>6, <1>7 DEF PeopleOK, Address
  <2>3. \A who \in DOMAIN db'.account :
          EmailOf[who] # None => db'.user[db'.account[who]].email = EmailOf[who]
    <3>1. ASSUME NEW who \in DOMAIN db.account, d.account[who] = db.account[who], EmailOf[who] # None
          PROVE  db'.user[d.account[who]].email = EmailOf[who]
      <4>1. db.account[who] \in DOMAIN db.user /\ db.user[db.account[who]].email = EmailOf[who]
        BY <1>6, <3>1 DEF References, PeopleOK
      <4> QED BY <1>4, <3>1, <4>1
    <3> QED BY <1>3, <1>4, <3>1 DEF AccountsFollow
  <2>4. ASSUME NEW s \in DOMAIN db'.session
        PROVE  /\ \/ db'.session[s].by = None
                  \/ \E c \in DOMAIN db'.challenge : db'.session[s].by = <<"code", c>>
                  \/ \E who : db'.session[s].by = <<"account", who>>
               /\ Person(db.session[s].by)' # None
                    => db'.user[db'.session[s].user].email = Person(db.session[s].by)'
    <3>0. PICK b : b = db'.session[s].by
      OBVIOUS
    <3>1. Person(db.session[s].by)' = IF b = None THEN None
            ELSE IF b[1] = "code" THEN db'.challenge[b[2]].email ELSE EmailOf[b[2]]
      BY <3>0 DEF Person
    <3>2. CASE s = r
      <4>1. b = by
        BY <1>5, <3>0, <3>2
      <4>2. ASSUME NEW c \in DOMAIN db.challenge, by = <<"code", c>>, db.challenge[c].email = email
            PROVE  Person(db.session[s].by)' # None => Person(db.session[s].by)' = email
        <5>1. by[1] = "code" /\ by[2] = c
          BY <4>2
        <5>2. db'.challenge[c].email = email
          BY <1>3, <4>2 DEF CodesFollow
        <5> QED BY <3>1, <4>1, <5>1, <5>2
      <4>3. ASSUME NEW who, by = <<"account", who>>, email = EmailOf[who]
            PROVE  Person(db.session[s].by)' # None => Person(db.session[s].by)' = email
        <5>1. by[1] # "code" /\ by[2] = who
          BY <4>3
        <5> QED BY <3>1, <4>1, <4>3, <5>1
      <4>4. /\ (\E c \in DOMAIN db'.challenge : by = <<"code", c>>) \/ (\E who : by = <<"account", who>>)
            /\ Person(db.session[s].by)' # None => Person(db.session[s].by)' = email
        BY <1>3, <1>c, <4>2, <4>3 DEF Vouches
      <4> QED BY <1>4, <1>5, <3>2, <4>4
    <3>3. CASE s # r
      <4>1. s \in DOMAIN db.session /\ db'.session[s] = db.session[s] /\ b = db.session[s].by
        BY <1>5, <3>0, <3>3
      <4>2. PICK old : old = Person(db.session[s].by)
        OBVIOUS
      <4>3. PICK new : new = Person(db.session[s].by)'
        OBVIOUS
      <4>4. /\ \/ b = None
               \/ \E c \in DOMAIN db.challenge : b = <<"code", c>>
               \/ \E who : b = <<"account", who>>
            /\ old # None => db.user[db.session[s].user].email = old
        BY <1>6, <4>1, <4>2 DEF PeopleOK
      <4>5. old = IF b = None THEN None
              ELSE IF b[1] = "code" THEN db.challenge[b[2]].email ELSE EmailOf[b[2]]
        BY <4>1, <4>2 DEF Person
      <4>6. new = IF b = None THEN None
              ELSE IF b[1] = "code" THEN db'.challenge[b[2]].email ELSE EmailOf[b[2]]
        BY <3>1, <4>3
      <4>7. new = old
        <5>1. CASE b = None
          BY <4>5, <4>6, <5>1
        <5>2. ASSUME NEW c \in DOMAIN db.challenge, b = <<"code", c>>
              PROVE  new = old
          <6>1. db'.challenge[c].email = db.challenge[c].email
            BY <1>3 DEF CodesFollow
          <6> QED BY <4>5, <4>6, <5>2, <6>1
        <5>3. ASSUME NEW who, b = <<"account", who>>
              PROVE  new = old
          BY <4>5, <4>6, <5>3
        <5> QED BY <4>4, <5>1, <5>2, <5>3
      <4>8. db'.user[db'.session[s].user].email = db.user[db.session[s].user].email
        BY <1>4, <1>6, <4>1 DEF References
      <4>9. \/ b = None
            \/ \E c \in DOMAIN db'.challenge : b = <<"code", c>>
            \/ \E who : b = <<"account", who>>
        BY <1>3, <1>c, <4>4
      <4>10. new # None => db'.user[db'.session[s].user].email = new
        BY <4>4, <4>7, <4>8
      <4> QED BY <3>0, <4>3, <4>9, <4>10
    <3> QED BY <3>2, <3>3
  <2> QED BY <2>1, <2>2, <2>3, <2>4 DEF PeopleOK
<1>14. KeysOK'
  <2>1. AgentsKept
    BY <1>2 DEF AgentsKept, Only, TableNames
  <2> QED BY <2>1, AgentsKeptOK
<1>15. {r} \subseteq {r} /\ from \cap {"new", "done"} = {}
  OBVIOUS
<1> QED BY <1>10, <1>11, <1>12, <1>13, <1>14, <1>15, EndInv

LEMMA CodeUsed ==
  ASSUME IsTables(db), NEW c \in DOMAIN db.challenge, NEW d, d = ConsumeEmailLoginChallenge(db, c)
  PROVE  /\ Only(db, d, {"challenge", "state", "account"}) /\ d.account = db.account
         /\ DOMAIN d.challenge = DOMAIN db.challenge /\ d.challenge[c].used
         /\ \A x \in DOMAIN db.challenge :
              /\ DOMAIN d.challenge[x] = DOMAIN db.challenge[x] /\ d.challenge[x].email = db.challenge[x].email
              /\ x # c => d.challenge[x].used = db.challenge[x].used
<1>1. PICK row : row = [db.challenge[c] EXCEPT !.used = TRUE]
  OBVIOUS
<1>2. Only(db, d, {"challenge", "state", "account"}) /\ d.account = db.account
      /\ d.challenge = [db.challenge EXCEPT ![c] = row]
  BY <1>1 DEF ConsumeEmailLoginChallenge, Only, IsTables, TableNames
<1>3. row.used = TRUE /\ DOMAIN row = DOMAIN db.challenge[c] /\ row.email = db.challenge[c].email
  BY <1>1 DEF IsTables
<1> QED BY <1>2, <1>3

LEMMA AccountTaken ==
  ASSUME DOMAIN db = TableNames, NEW r, NEW d, d = ResolveOrCreateOAuthUser(r, DeleteOAuthState(db, Do(r).state)),
         NEW who, who = Do(r).who
  PROVE  /\ Only(db, d, {"challenge", "state", "account"}) /\ d.challenge = db.challenge
         /\ \A x \in DOMAIN d.account :
              \/ x \in DOMAIN db.account /\ d.account[x] = db.account[x]
              \/ x = who /\ d.account[x] = IF Got(r).user = {} THEN r ELSE CHOOSE u \in Got(r).user : TRUE
<1>1. PICK e : e = DeleteOAuthState(db, Do(r).state)
  OBVIOUS
<1>2. Only(db, e, {"state"})
  BY <1>1 DEF DeleteOAuthState, Only
<1>3. PICK u : u = IF Got(r).user = {} THEN r ELSE CHOOSE v \in Got(r).user : TRUE
  OBVIOUS
<1>4. CASE Got(r).account # {}
  <2>1. d = e
    BY <1>1, <1>4 DEF ResolveOrCreateOAuthUser
  <2> QED BY <1>2, <2>1 DEF Only, TableNames
<1>5. CASE Got(r).account = {}
  <2>1. d = Add(e, "account", who, u)
    BY <1>1, <1>3, <1>5 DEF ResolveOrCreateOAuthUser, UpsertOAuthAccount
  <2>2. AddsRow(e, d, "account", who, u)
    <3>1. "account" \in TableNames
      BY DEF TableNames
    <3> QED BY <1>2, <2>1, <3>1, AddOnly DEF Only
  <2>3. Only(db, d, {"challenge", "state", "account"}) /\ d.challenge = db.challenge /\ e.account = db.account
    BY <1>2, <2>2 DEF AddsRow, Only, TableNames
  <2>4. \A x \in DOMAIN d.account :
          \/ x \in DOMAIN db.account /\ d.account[x] = db.account[x]
          \/ x = who /\ d.account[x] = u
    BY <2>2, <2>3 DEF AddsRow
  <2> QED BY <1>3, <2>3, <2>4
<1> QED BY <1>4, <1>5

LEMMA SignInsInv ==
  ASSUME Inv, NEW r \in Request, scene' = scene, churn' = churn
  PROVE  /\ VerifyEmail(r) => Inv'
         /\ EnterWithAccount(r) => Inv'
<1>0. RequestShape(r) /\ IsTables(db) /\ DOMAIN db = TableNames /\ RequestOK(r) /\ SignInOK(r) /\ CallbackOK(r)
  BY ShapeOK DEF Inv, IsTables, StepOK
<1>1. ASSUME VerifyEmail(r) PROVE Inv'
  <2>1. Turn(r, {"sign in"}, {"done"})
    BY <1>0, <1>1, SignInTurns
  <2>2. req[r].pc = "sign in" /\ {"sign in"} \cap {"new", "done", "send code"} = {}
        /\ {"sign in"} \cap {"new", "done"} = {}
    BY <2>1 DEF Turn
  <2>3. PICK c : c = Got(r).challenge
    OBVIOUS
  <2>4. PICK email : email = Do(r).email
    OBVIOUS
  <2>5. PICK found : found = Got(r).user
    OBVIOUS
  <2>6. /\ c \in DOMAIN db.challenge /\ db.challenge[c].email = email /\ ~db.challenge[c].used
        /\ <<"challenge", c>> \in req[r].locks
        /\ \A u \in found : u \in DOMAIN db.user /\ db.user[u].email = email
        /\ Do(r).op = "verifyEmail"
    BY <1>0, <2>2, <2>3, <2>4, <2>5 DEF SignInOK, SignInSteps, At
  <2>7. email \notin Request
    BY <1>0, <2>2, <2>4, <2>6 DEF RequestOK, IsCommand, At
  <2>8. PICK d : d = ConsumeEmailLoginChallenge(db, c)
    OBVIOUS
  <2>9. PICK by : by = <<"code", c>>
    OBVIOUS
  <2>10. SignIn(r, d, found, email, by)
    BY <1>1, <2>3, <2>4, <2>5, <2>8, <2>9 DEF VerifyEmail
  <2>11. /\ Only(db, d, {"challenge", "state", "account"}) /\ d.account = db.account
         /\ DOMAIN d.challenge = DOMAIN db.challenge /\ d.challenge[c].used
         /\ \A x \in DOMAIN db.challenge :
              /\ DOMAIN d.challenge[x] = DOMAIN db.challenge[x] /\ d.challenge[x].email = db.challenge[x].email
              /\ x # c => d.challenge[x].used = db.challenge[x].used
    BY <1>0, <2>6, <2>8, CodeUsed
  <2>12. CodesFollow(r, d)
    BY <2>6, <2>11 DEF CodesFollow
  <2>13. AccountsFollow(d)
    BY <2>11 DEF AccountsFollow
  <2>14. Vouches(d, by, email)
    BY <2>6, <2>9, <2>11 DEF Vouches
  <2>15. CASE Fails(r)
    BY <2>1, <2>2, <2>15, NoWrite, RewriteInv
  <2>16. CASE ~Fails(r)
    <3>1. req[r].pc \notin {"done", "send code"}
      BY <2>2
    <3>2. \A u \in found : u \in DOMAIN db.user /\ (email # None => db.user[u].email = email)
      BY <2>6
    <3>3. PICK u : Entered(r, d, u, by, email)
      BY <2>10, <2>11, <2>16, <3>1, <3>2, SignInEnters
    <3> QED BY <2>1, <2>2, <2>7, <2>11, <2>12, <2>13, <2>14, <3>3, EnteredInv
  <2> QED BY <2>15, <2>16
<1>2. ASSUME EnterWithAccount(r) PROVE Inv'
  <2>1. Turn(r, {"enter"}, {"done"})
    BY <1>0, <1>2, SignInTurns
  <2>2. req[r].pc = "enter" /\ {"enter"} \cap {"new", "done", "send code"} = {}
        /\ {"enter"} \cap {"new", "done"} = {}
    BY <2>1 DEF Turn
  <2>3. PICK who : who = Do(r).who
    OBVIOUS
  <2>4. PICK email : email = EmailOf[Do(r).who]
    OBVIOUS
  <2>5. PICK found : found = Got(r).user
    OBVIOUS
  <2>6. /\ \A u \in found : u \in DOMAIN db.user /\ (email # None => db.user[u].email = email)
        /\ Do(r).op = "callback"
    BY <1>0, <2>2, <2>4, <2>5 DEF CallbackOK, CallbackSteps, At
  <2>7. email \notin Request
    BY <1>0, <2>2, <2>4, <2>6 DEF RequestOK, IsCommand, At
  <2>8. PICK d : d = ResolveOrCreateOAuthUser(r, DeleteOAuthState(db, Do(r).state))
    OBVIOUS
  <2>9. PICK by : by = <<"account", who>>
    OBVIOUS
  <2>10. SignIn(r, d, found, email, by)
    BY <1>2, <2>3, <2>4, <2>5, <2>8, <2>9 DEF EnterWithAccount
  <2>11. /\ Only(db, d, {"challenge", "state", "account"}) /\ d.challenge = db.challenge
         /\ \A x \in DOMAIN d.account :
              \/ x \in DOMAIN db.account /\ d.account[x] = db.account[x]
              \/ x = who /\ d.account[x] = IF found = {} THEN r ELSE CHOOSE u \in found : TRUE
    BY <1>0, <2>3, <2>5, <2>8, AccountTaken
  <2>12. CodesFollow(r, d)
    BY <2>11 DEF CodesFollow
  <2>13. Vouches(d, by, email)
    BY <2>3, <2>4, <2>9 DEF Vouches
  <2>14. CASE Fails(r)
    BY <2>1, <2>2, <2>14, NoWrite, RewriteInv
  <2>15. CASE ~Fails(r)
    <3>1. req[r].pc \notin {"done", "send code"}
      BY <2>2
    <3>2. PICK u : Entered(r, d, u, by, email) /\ (u \in found \/ (found = {} /\ u = r))
      BY <2>6, <2>10, <2>11, <2>15, <3>1, SignInEnters
    <3>3. /\ u \in DOMAIN db'.user /\ (email # None => db'.user[u].email = email)
          /\ \A v \in DOMAIN db.user : v \in DOMAIN db'.user /\ db'.user[v] = db.user[v]
      BY <2>11, <3>2 DEF Entered, Only, TableNames
    <3>4. AccountsFollow(d)
      <4>1. PICK x : x = IF found = {} THEN r ELSE CHOOSE v \in found : TRUE
        OBVIOUS
      <4>2. x \in found \/ (found = {} /\ x = u)
        BY <3>2, <4>1
      <4>3. x \in DOMAIN db'.user /\ (email # None => db'.user[x].email = email)
        BY <2>6, <3>3, <4>2
      <4> QED BY <2>3, <2>4, <2>11, <4>1, <4>3 DEF AccountsFollow
    <3> QED BY <2>1, <2>2, <2>7, <2>11, <2>12, <2>13, <3>2, <3>4, EnteredInv
  <2> QED BY <2>14, <2>15
<1> QED BY <1>1, <1>2

-----------------------------------------------------------------------------
(***************************************************************************)
(* Agents and their keys.                                                  *)
(***************************************************************************)

\* The tokens of old are dead, and nothing else has changed.
Revoked(d, old) ==
  /\ Only(db, d, {"token"}) /\ DOMAIN d.token = DOMAIN db.token
  /\ \A t \in DOMAIN db.token :
       /\ DOMAIN d.token[t] = DOMAIN db.token[t] /\ d.token[t].agent = db.token[t].agent
       /\ d.token[t].live = IF t \in old THEN FALSE ELSE db.token[t].live

LEMMA TokensRevoked ==
  ASSUME IsTables(db), NEW old, NEW d, d = RevokeActiveAgentAPIKey(db, old)
  PROVE  Revoked(d, old)
<1>1. Only(db, d, {"token"})
      /\ d.token = [t \in DOMAIN db.token |-> IF t \in old THEN [db.token[t] EXCEPT !.live = FALSE] ELSE db.token[t]]
  BY DEF RevokeActiveAgentAPIKey, Only, IsTables, TableNames
<1>2. ASSUME NEW t \in DOMAIN db.token
      PROVE  /\ DOMAIN d.token[t] = DOMAIN db.token[t] /\ d.token[t].agent = db.token[t].agent
             /\ d.token[t].live = IF t \in old THEN FALSE ELSE db.token[t].live
  <2>1. DOMAIN db.token[t] = {"agent", "live", "blank"}
    BY DEF IsTables
  <2>2. PICK row : row = [db.token[t] EXCEPT !.live = FALSE]
    OBVIOUS
  <2>3. DOMAIN row = DOMAIN db.token[t] /\ row.agent = db.token[t].agent /\ row.live = FALSE
    BY <2>1, <2>2
  <2>4. d.token[t] = IF t \in old THEN row ELSE db.token[t]
    BY <1>1, <2>2
  <2> QED BY <2>3, <2>4
<1> QED BY <1>1, <1>2 DEF Revoked

LEMMA NewTokenInv ==
  ASSUME Inv, NEW r \in Request, scene' = scene, churn' = churn, NewToken(r)
  PROVE  Inv'
<1>0. RequestShape(r) /\ IsTables(db) /\ References(db) /\ AgentOK(r) /\ KeysOK
  BY ShapeOK DEF Inv, StepOK
<1>1. Turn(r, {"new token"}, {"done"})
  BY <1>0, AccountTurns
<1>2. req[r].pc = "new token" /\ {"new token"} \cap {"new", "done"} = {} /\ req[r].pc \notin {"done", "send code"}
  BY <1>1 DEF Turn
<1>3. CASE TokenClash(r) # {}
  <2>1. Fails(r)
    BY <1>3 DEF NewToken
  <2> QED BY <1>1, <1>2, <2>1, NoWrite, RewriteInv
<1>4. CASE TokenClash(r) = {}
  <2>1. PICK a : a = Do(r).agent
    OBVIOUS
  <2>2. PICK old : old = Got(r).user
    OBVIOUS
  <2>3. PICK d : d = RevokeActiveAgentAPIKey(db, old)
    OBVIOUS
  <2>4. PICK row : row = [agent |-> a, live |-> TRUE, blank |-> FALSE]
    OBVIOUS
  <2>5. db' = Add(d, "token", r, row)
    BY <1>4, <2>1, <2>2, <2>3, <2>4 DEF NewToken, Commit, CreateAgentAPIKey
  <2>6. /\ Only(db, d, {"token"}) /\ DOMAIN d.token = DOMAIN db.token
        /\ \A t \in DOMAIN db.token :
             /\ DOMAIN d.token[t] = DOMAIN db.token[t] /\ d.token[t].agent = db.token[t].agent
             /\ d.token[t].live = IF t \in old THEN FALSE ELSE db.token[t].live
    <3>1. Revoked(d, old)
      BY <1>0, <2>3, TokensRevoked
    <3> QED BY <3>1 DEF Revoked
  <2>7. AddsRow(d, db', "token", r, row)
    <3>1. "token" \in TableNames
      BY DEF TableNames
    <3> QED BY <2>5, <2>6, <3>1, AddOnly DEF Only
  <2>8. r \notin DOMAIN db.token
    <3>1. r \notin DOMAIN db["token"]
      BY <1>2, NotThere DEF NamedByRequest
    <3> QED BY <3>1
  <2>9. /\ Only(db, db', {"token"}) /\ DOMAIN db'.token = DOMAIN db.token \cup {r} /\ db'.token[r] = row
        /\ \A t \in DOMAIN db.token : db'.token[t] = d.token[t]
    BY <2>6, <2>7, <2>8 DEF AddsRow, Only
  <2>10. /\ a \in DOMAIN db.agent /\ \A t \in old : t \in DOMAIN db.token /\ db.token[t].agent = a
    BY <1>0, <1>2, <2>1, <2>2 DEF AgentOK, TokenSteps
  <2>11. LiveTokens(db, a) \subseteq old
    BY <1>4, <2>1, <2>2 DEF TokenClash
  <2>12. DOMAIN row = {"agent", "live", "blank"} /\ row.agent = a /\ row.live = TRUE
    BY <2>4
  <2>13. KeysOK'
    <3>1. SUFFICES ASSUME NEW b \in DOMAIN db.agent
          PROVE  \E t \in DOMAIN db'.token : LiveTokens(db', b) = {t}
      BY <2>9 DEF KeysOK, Only, TableNames
    <3>2. CASE b = a
      <4>1. \A t \in DOMAIN db'.token : db'.token[t].agent = a /\ db'.token[t].live => t = r
        <5>1. \A t \in DOMAIN db.token : db.token[t].agent = a /\ db.token[t].live => t \in old
          BY <2>11 DEF LiveTokens
        <5> QED BY <2>6, <2>9, <5>1
      <4>2. LiveTokens(db', b) = {r}
        BY <2>9, <2>12, <3>2, <4>1 DEF LiveTokens
      <4> QED BY <2>9, <4>2
    <3>3. CASE b # a
      <4>1. \A t \in DOMAIN db.token : db.token[t].agent = b =>
              db'.token[t].agent = b /\ db'.token[t].live = db.token[t].live
        BY <2>6, <2>9, <2>10, <3>3
      <4>2. \A t \in DOMAIN db'.token : db'.token[t].agent = b => t \in DOMAIN db.token /\ db.token[t].agent = b
        BY <2>6, <2>9, <2>12, <3>3
      <4>3. LiveTokens(db', b) = LiveTokens(db, b)
        BY <2>9, <4>1, <4>2 DEF LiveTokens
      <4> QED BY <1>0, <2>9, <4>3 DEF KeysOK
    <3> QED BY <3>2, <3>3
  <2>14. IsTables(db')
    <3>1. \A t \in DOMAIN db'.token : DOMAIN db'.token[t] = {"agent", "live", "blank"}
      BY <1>0, <2>6, <2>9, <2>12 DEF IsTables
    <3> QED BY <1>0, <2>9, <3>1 DEF IsTables, Only, TableNames
  <2>15. References(db')
    BY <1>0, <2>6, <2>9, <2>10, <2>12 DEF References, Only, TableNames
  <2>16. Grown({r})
    <3>1. \A t \in NamedByRequest : DOMAIN db'[t] \subseteq DOMAIN db[t] \cup {r}
      BY <2>9 DEF NamedByRequest, Only, TableNames
    <3> QED BY <2>6, <2>9, <2>14, <2>15, <3>1 DEF Grown, Only, TableNames
  <2>17. SessionsKept /\ UsersKept
    BY <2>9 DEF SessionsKept, UsersKept, Only, TableNames
  <2>18. {r} \subseteq Request /\ {r} \subseteq {r}
    OBVIOUS
  <2>19. CodesOK'
    BY <2>16, <2>17, <2>18, SessionsKeptOK
  <2>20. PeopleOK'
    BY <2>16, <2>17, UsersKeptOK
  <2>21. UsesOwn(r)
    BY <2>17, UsedKept
  <2> QED BY <1>1, <1>2, <2>13, <2>16, <2>18, <2>19, <2>20, <2>21, EndInv
<1> QED BY <1>3, <1>4

\* The rows of a new agent.
AgentInserted(r, w) == \E user, agent, token :
  /\ DOMAIN user = {"kind", "status", "email", "handle", "bio"} /\ user.email = None
  /\ DOMAIN agent = {"owner", "space", "mode"}
  /\ DOMAIN token = {"agent", "live", "blank"} /\ token.agent = r /\ token.live = TRUE
  /\ Only(db, db', {"user", "agent", "member", "token", "told"})
  /\ DOMAIN db'.user = DOMAIN db.user \cup {r} /\ db'.user[r] = user
  /\ \A x \in DOMAIN db.user \ {r} : db'.user[x] = db.user[x]
  /\ DOMAIN db'.agent = DOMAIN db.agent \cup {r} /\ db'.agent[r] = agent
  /\ \A x \in DOMAIN db.agent \ {r} : db'.agent[x] = db.agent[x]
  /\ DOMAIN db'.token = DOMAIN db.token \cup {r} /\ db'.token[r] = token
  /\ \A x \in DOMAIN db.token \ {r} : db'.token[x] = db.token[x]
  /\ DOMAIN db'.member = DOMAIN db.member \cup {<<v, r>> : v \in {w} \ {None}}

LEMMA InsertAgentRows ==
  ASSUME DOMAIN db = TableNames, NEW r, NEW handle, db' = InsertAgent(db, r, handle)
  PROVE  AgentInserted(r, Do(r).space)
<1>1. PICK w : w = Do(r).space
  OBVIOUS
<1>2. PICK owner : owner = IF w = None THEN Caller(r).user ELSE None
  OBVIOUS
<1>3. PICK mode : mode = Do(r).mode
  OBVIOUS
<1>4. PICK user : user = [kind |-> "agent", status |-> "active", email |-> None, handle |-> handle, bio |-> "none"]
  OBVIOUS
<1>5. PICK agent : agent = [owner |-> owner, space |-> w, mode |-> mode]
  OBVIOUS
<1>6. PICK token : token = [agent |-> r, live |-> TRUE, blank |-> FALSE]
  OBVIOUS
<1>7. PICK d1 : d1 = Add(db, "user", r, user)
  OBVIOUS
<1>8. PICK d2 : d2 = Add(d1, "agent", r, agent)
  OBVIOUS
<1>9. PICK member : member = <<w, r>>
  OBVIOUS
<1>10. PICK d3 : d3 = IF w = None THEN d2 ELSE Add(d2, "member", member, "member")
  OBVIOUS
<1>11. PICK d4 : d4 = Add(d3, "token", r, token)
  OBVIOUS
<1>12. db' = InsertInternalEvent(d4, r, "user", r, w)
  <2>1. d1 = CreateUser(db, r, "agent", None, handle)
    BY <1>4, <1>7 DEF CreateUser
  <2>2. d2 = CreateAgent(d1, r, owner, w, mode)
    BY <1>5, <1>8 DEF CreateAgent
  <2>3. d3 = IF w = None THEN d2 ELSE CreateWorkspaceMembership(d2, w, r, "member")
    BY <1>9, <1>10 DEF CreateWorkspaceMembership
  <2>4. d4 = CreateAgentAPIKey(d3, r, r)
    BY <1>6, <1>11 DEF CreateAgentAPIKey
  <2> QED BY <1>1, <1>2, <1>3, <2>1, <2>2, <2>3, <2>4, Zenon DEF InsertAgent
<1>13. {"user", "agent", "member", "token"} \subseteq TableNames
  BY DEF TableNames
<1>14. AddsRow(db, d1, "user", r, user) /\ DOMAIN d1 = TableNames
  BY <1>7, <1>13, AddOnly DEF AddsRow, Only
<1>15. AddsRow(d1, d2, "agent", r, agent) /\ DOMAIN d2 = TableNames
  BY <1>8, <1>13, <1>14, AddOnly DEF AddsRow, Only
<1>16. Only(d2, d3, {"member"}) /\ DOMAIN d3.member = DOMAIN d2.member \cup {<<v, r>> : v \in {w} \ {None}}
  <2>1. CASE w = None
    BY <1>10, <1>15, <2>1 DEF Only
  <2>2. CASE w # None
    <3>1. AddsRow(d2, d3, "member", member, "member")
      BY <1>10, <1>13, <1>15, <2>2, AddOnly
    <3>2. {<<v, r>> : v \in {w} \ {None}} = {member}
      BY <1>9, <2>2
    <3> QED BY <3>1, <3>2 DEF AddsRow
  <2> QED BY <2>1, <2>2
<1>17. AddsRow(d3, d4, "token", r, token) /\ DOMAIN d4 = TableNames
  BY <1>11, <1>13, <1>16, AddOnly DEF AddsRow, Only
<1>18. Only(d4, db', {"told"})
  BY <1>12, <1>17, ToldOnly
<1>19. Only(db, db', {"user", "agent", "member", "token", "told"})
  BY <1>14, <1>15, <1>16, <1>17, <1>18 DEF AddsRow, Only
<1>20. db'.user = d1.user
  BY <1>15, <1>16, <1>17, <1>18 DEF AddsRow, Only, TableNames
<1>21. db'.agent = d2.agent /\ d1.agent = db.agent
  BY <1>14, <1>16, <1>17, <1>18 DEF AddsRow, Only, TableNames
<1>22. db'.token = d4.token /\ d3.token = db.token
  BY <1>14, <1>15, <1>16, <1>18 DEF AddsRow, Only, TableNames
<1>23. db'.member = d3.member /\ d2.member = db.member
  BY <1>14, <1>15, <1>17, <1>18 DEF AddsRow, Only, TableNames
<1>24. DOMAIN user = {"kind", "status", "email", "handle", "bio"} /\ user.email = None
  BY <1>4
<1>25. DOMAIN agent = {"owner", "space", "mode"}
  BY <1>5
<1>26. DOMAIN token = {"agent", "live", "blank"} /\ token.agent = r /\ token.live = TRUE
  BY <1>6
<1>27. /\ DOMAIN db'.user = DOMAIN db.user \cup {r} /\ db'.user[r] = user
       /\ \A x \in DOMAIN db.user \ {r} : db'.user[x] = db.user[x]
  BY <1>14, <1>20 DEF AddsRow
<1>28. /\ DOMAIN db'.agent = DOMAIN db.agent \cup {r} /\ db'.agent[r] = agent
       /\ \A x \in DOMAIN db.agent \ {r} : db'.agent[x] = db.agent[x]
  BY <1>15, <1>21 DEF AddsRow
<1>29. /\ DOMAIN db'.token = DOMAIN db.token \cup {r} /\ db'.token[r] = token
       /\ \A x \in DOMAIN db.token \ {r} : db'.token[x] = db.token[x]
  BY <1>17, <1>22 DEF AddsRow
<1>30. DOMAIN db'.member = DOMAIN db.member \cup {<<v, r>> : v \in {w} \ {None}}
  BY <1>16, <1>23
<1> QED BY <1>1, <1>19, <1>24, <1>25, <1>26, <1>27, <1>28, <1>29, <1>30 DEF AgentInserted

LEMMA PostAgentInv ==
  ASSUME Inv, NEW r \in Request, scene' = scene, churn' = churn, PostAgent(r)
  PROVE  Inv'
<1>0. RequestShape(r) /\ IsTables(db) /\ DOMAIN db = TableNames /\ References(db) /\ KeysOK
  BY ShapeOK DEF Inv, IsTables
<1>1. Turn(r, {"createAgent"}, {"done"})
  BY <1>0, AccountTurns
<1>2. req[r].pc = "createAgent" /\ {"createAgent"} \cap {"new", "done"} = {}
      /\ req[r].pc \notin {"done", "send code"}
  BY <1>1 DEF Turn
<1>3. CASE Refuse(r)
  BY <1>1, <1>2, <1>3, NoWrite, RewriteInv
<1>4. CASE ~Refuse(r)
  <2>1. PICK w : w = Do(r).space
    OBVIOUS
  <2>2. w # None => w \in DOMAIN db.space
    <3>1. SUFFICES ASSUME w # None PROVE w \in DOMAIN db.space
      OBVIOUS
    <3>2. Membership(w, Caller(r).user) \in {"admin", "owner"}
      BY <1>4, <2>1, <3>1 DEF PostAgent, EnsureWorkspaceAdmin
    <3>3. <<w, Caller(r).user>> \in DOMAIN db.member
      BY <3>2 DEF Membership
    <3> QED BY <1>0, <3>3 DEF References
  <2>3. PICK handle : db' = InsertAgent(db, r, handle)
    BY <1>4 DEF PostAgent, Commit
  <2>4. AgentInserted(r, w)
    BY <1>0, <2>1, <2>3, InsertAgentRows
  <2>5. PICK user, agent, token :
          /\ DOMAIN user = {"kind", "status", "email", "handle", "bio"} /\ user.email = None
          /\ DOMAIN agent = {"owner", "space", "mode"}
          /\ DOMAIN token = {"agent", "live", "blank"} /\ token.agent = r /\ token.live = TRUE
          /\ Only(db, db', {"user", "agent", "member", "token", "told"})
          /\ DOMAIN db'.user = DOMAIN db.user \cup {r} /\ db'.user[r] = user
          /\ \A x \in DOMAIN db.user \ {r} : db'.user[x] = db.user[x]
          /\ DOMAIN db'.agent = DOMAIN db.agent \cup {r} /\ db'.agent[r] = agent
          /\ \A x \in DOMAIN db.agent \ {r} : db'.agent[x] = db.agent[x]
          /\ DOMAIN db'.token = DOMAIN db.token \cup {r} /\ db'.token[r] = token
          /\ \A x \in DOMAIN db.token \ {r} : db'.token[x] = db.token[x]
          /\ DOMAIN db'.member = DOMAIN db.member \cup {<<v, r>> : v \in {w} \ {None}}
    BY <2>4 DEF AgentInserted
  <2>6. r \notin DOMAIN db.user /\ r \notin DOMAIN db.agent /\ r \notin DOMAIN db.token
    <3>1. r \notin DOMAIN db["user"] /\ r \notin DOMAIN db["agent"] /\ r \notin DOMAIN db["token"]
      BY <1>2, NotThere DEF NamedByRequest
    <3> QED BY <3>1
  <2>7. /\ DOMAIN db' = TableNames /\ db'.challenge = db.challenge /\ db'.session = db.session /\ db'.key = db.key
        /\ db'.room = db.room /\ db'.message = db.message /\ db'.sub = db.sub /\ db'.account = db.account
        /\ db'.space = db.space /\ db'.seat = db.seat
    BY <2>5 DEF Only, TableNames
  <2>8. IsTables(db')
    <3>1. \A x \in DOMAIN db'.user : DOMAIN db'.user[x] = {"kind", "status", "email", "handle", "bio"}
      BY <1>0, <2>5 DEF IsTables
    <3>2. \A x \in DOMAIN db'.agent : DOMAIN db'.agent[x] = {"owner", "space", "mode"}
      BY <1>0, <2>5 DEF IsTables
    <3>3. \A x \in DOMAIN db'.token : DOMAIN db'.token[x] = {"agent", "live", "blank"}
      BY <1>0, <2>5 DEF IsTables
    <3> QED BY <1>0, <2>7, <3>1, <3>2, <3>3 DEF IsTables
  <2>9. References(db')
    <3>1. DOMAIN db.user \subseteq DOMAIN db'.user /\ r \in DOMAIN db'.user
      BY <2>5
    <3>2. \A t \in DOMAIN db'.token : db'.token[t].agent \in DOMAIN db'.agent
      BY <1>0, <2>5 DEF References
    <3>3. DOMAIN db'.agent \subseteq DOMAIN db'.user
      BY <1>0, <2>5 DEF References
    <3>4. DOMAIN db'.member \subseteq (DOMAIN db'.space) \X (DOMAIN db'.user)
      <4>1. DOMAIN db.member \subseteq (DOMAIN db'.space) \X (DOMAIN db'.user)
        <5>1. DOMAIN db.member \subseteq (DOMAIN db.space) \X (DOMAIN db.user)
          BY <1>0 DEF References
        <5>2. (DOMAIN db.space) \X (DOMAIN db.user) \subseteq (DOMAIN db'.space) \X (DOMAIN db'.user)
          BY <2>7, <3>1
        <5> QED BY <5>1, <5>2
      <4>2. {<<v, r>> : v \in {w} \ {None}} \subseteq (DOMAIN db'.space) \X (DOMAIN db'.user)
        BY <2>2, <2>7, <3>1
      <4>3. DOMAIN db'.member = DOMAIN db.member \cup {<<v, r>> : v \in {w} \ {None}}
        BY <2>5
      <4> QED BY <4>1, <4>2, <4>3
    <3>5. db'.seat \subseteq (DOMAIN db'.room) \X (DOMAIN db'.user)
      <4>1. db.seat \subseteq (DOMAIN db.room) \X (DOMAIN db.user)
        BY <1>0 DEF References
      <4>2. (DOMAIN db.room) \X (DOMAIN db.user) \subseteq (DOMAIN db'.room) \X (DOMAIN db'.user)
        BY <2>7, <3>1
      <4> QED BY <2>7, <4>1, <4>2
    <3> QED BY <1>0, <2>7, <3>1, <3>2, <3>3, <3>4, <3>5 DEF References
  <2>10. Grown({r})
    <3>1. \A t \in NamedByRequest : DOMAIN db'[t] \subseteq DOMAIN db[t] \cup {r}
      <4>1. DOMAIN db'["user"] \subseteq DOMAIN db["user"] \cup {r}
        BY <2>5
      <4>2. DOMAIN db'["agent"] \subseteq DOMAIN db["agent"] \cup {r}
        BY <2>5
      <4>3. DOMAIN db'["token"] \subseteq DOMAIN db["token"] \cup {r}
        BY <2>5
      <4> QED BY <2>7, <4>1, <4>2, <4>3 DEF NamedByRequest
    <3>2. \A u \in DOMAIN db.user : u \in DOMAIN db'.user /\ db'.user[u].email = db.user[u].email
      BY <2>5, <2>6
    <3>3. \A t \in DOMAIN db.token : t \in DOMAIN db'.token /\ db'.token[t].agent = db.token[t].agent
      BY <2>5, <2>6
    <3>4. DOMAIN db.agent \subseteq DOMAIN db'.agent
      BY <2>5
    <3> QED BY <2>7, <2>8, <2>9, <3>1, <3>2, <3>3, <3>4 DEF Grown
  <2>11. SessionsKept /\ UsersKept
    BY <2>5, <2>7 DEF SessionsKept, UsersKept
  <2>12. KeysOK'
    <3>1. SUFFICES ASSUME NEW a \in DOMAIN db'.agent
          PROVE  \E t \in DOMAIN db'.token : LiveTokens(db', a) = {t}
      BY DEF KeysOK
    <3>2. \A t \in DOMAIN db.token : db.token[t].agent # r /\ t # r /\ db'.token[t] = db.token[t]
      BY <1>0, <2>5, <2>6 DEF References
    <3>3. CASE a = r
      <4>1. LiveTokens(db', a) = {r}
        BY <2>5, <3>2, <3>3 DEF LiveTokens
      <4> QED BY <2>5, <4>1
    <3>4. CASE a # r
      <4>1. a \in DOMAIN db.agent
        BY <2>5, <3>4
      <4>2. LiveTokens(db', a) = LiveTokens(db, a)
        BY <2>5, <3>2, <3>4 DEF LiveTokens
      <4> QED BY <1>0, <2>5, <4>1, <4>2 DEF KeysOK
    <3> QED BY <3>3, <3>4
  <2>13. {r} \subseteq Request /\ {r} \subseteq {r}
    OBVIOUS
  <2>14. CodesOK'
    BY <2>10, <2>11, <2>13, SessionsKeptOK
  <2>15. PeopleOK'
    BY <2>10, <2>11, UsersKeptOK
  <2>16. UsesOwn(r)
    BY <2>11, UsedKept
  <2> QED BY <1>1, <1>2, <2>10, <2>12, <2>13, <2>14, <2>15, <2>16, EndInv
<1> QED BY <1>3, <1>4

-----------------------------------------------------------------------------
(***************************************************************************)
(* The first steps of a request, its end without an answer of its handler, *)
(* and what is not a request.                                              *)
(***************************************************************************)

\* Before the first step of its handler, or of the authentication.
LEMMA StartStep ==
  ASSUME NEW r, req'[r].pc \notin Steps \ {"authenticate"}
  PROVE  StepOK(r)'
BY DEF Steps, StepOK, SignInOK, SignInSteps, CallbackOK, CallbackSteps, AgentOK, TokenSteps, RoomOK, At

LEMMA SendInv ==
  ASSUME Inv, NEW r \in Request, scene' = scene, churn' = churn, Send(r)
  PROVE  Inv'
<1>1. PICK do \in Scenes[scene].asks[r] :
        Becomes(r, [New EXCEPT !.do = do, !.pc = IF do.op \in Unauthenticated THEN do.op ELSE "authenticate"])
  BY DEF Send
<1>2. IsCommand(do)
  BY ScenesAssumption DEF Inv
<1>3. PICK step : step = IF do.op \in Unauthenticated THEN do.op ELSE "authenticate"
  OBVIOUS
<1>4. PICK e : e = [New EXCEPT !.do = do, !.pc = step]
  OBVIOUS
<1>5. /\ DOMAIN e = Fields /\ e.do = do /\ e.pc = step /\ e.auth = None /\ e.locks = {} /\ e.answer = None
  BY <1>4 DEF New, Fields
<1>6. req' = [req EXCEPT ![r] = e] /\ DOMAIN req = Request
  BY <1>1, <1>3, <1>4 DEF Becomes, Inv
<1>7. req'[r] = e /\ req' = [req EXCEPT ![r] = req'[r]]
  BY <1>6
<1>8. step = "authenticate" \/ (step \notin Steps /\ step = do.op /\ step \in Unauthenticated)
  BY <1>2, <1>3 DEF IsCommand
<1>9. req[r].pc = "new" /\ db' = db
  BY DEF Send, At
<1>10. Rewrites
  BY <1>9, SameRewrites DEF Inv
<1>11. Grown({}) /\ SessionsKept /\ UsersKept /\ AgentsKept
  BY <1>10, RewritesKeep DEF Inv
<1>12. CodesOK' /\ PeopleOK' /\ KeysOK' /\ UsesOwn(r)
  <2>1. {} \subseteq Request
    OBVIOUS
  <2>2. CodesOK'
    BY <1>11, <2>1, SessionsKeptOK
  <2>3. PeopleOK'
    BY <1>11, UsersKeptOK
  <2> QED BY <1>11, <2>2, <2>3, AgentsKeptOK, UsedKept
<1>13. RequestOK(r)'
  <2>1. step # "new" /\ step # "done" /\ "authenticate" \in Steps
    BY <1>8 DEF Steps
  <2> QED BY <1>2, <1>5, <1>7, <1>8, <2>1 DEF RequestOK, At, Do, Caller, IsCommand
<1>14. StepOK(r)'
  BY <1>5, <1>7, <1>8, StartStep
<1>15. \A row \in req'[r].locks : row \in req[r].locks \/ Free(r, row)
  BY <1>5, <1>7
<1>16. {} = {} \/ ({} = {r} /\ req'[r].pc \in {"done", "send code"})
  OBVIOUS
<1>17. req[r].pc # "done" /\ (req[r].pc = "send code" => req'[r].pc = "done")
  BY <1>9
<1>18. \/ req'[r].pc = "done"
       \/ db'.user = db.user /\ db'.room = db.room
  BY <1>9
<1> QED BY <1>7, <1>11, <1>12, <1>13, <1>14, <1>15, <1>16, <1>17, <1>18, StepInv

LEMMA AuthenticateInv ==
  ASSUME Inv, NEW r \in Request, scene' = scene, churn' = churn, Authenticate(r)
  PROVE  Inv'
<1>0. RequestShape(r) /\ RequestOK(r) /\ References(db)
  BY ShapeOK DEF Inv
<1>1. req[r].pc = "authenticate" /\ db' = db
  BY DEF Authenticate, At
<1>2. Rewrites
  BY <1>1, SameRewrites DEF Inv
<1>3. CASE Answer(r, "refused")
  <2>1. req[r].pc \in {"authenticate"} /\ {"authenticate"} \cap {"new", "done"} = {}
    BY <1>1
  <2>2. Turn(r, {"authenticate"}, {"done"})
    BY <1>0, <1>3, <2>1, AnswerTurn
  <2> QED BY <1>2, <2>1, <2>2, RewriteInv
<1>4. ASSUME NEW auth \in AuthenticateRequest(Do(r).as), Becomes(r, [req[r] EXCEPT !.auth = auth, !.pc = Do(r).op])
      PROVE  Inv'
  <2>1. auth.user \in DOMAIN db.user
    <3>1. auth \in GetSessionAuth(Do(r).as) => auth.user \in DOMAIN db.user
      BY <1>0 DEF GetSessionAuth, References
    <3>2. auth \in GetAPIKeyAuth(Do(r).as) => auth.user \in DOMAIN db.user
      BY <1>0 DEF GetAPIKeyAuth, References
    <3>3. auth \in GetAgentAPIKeyAuth(Do(r).as) => auth.user \in DOMAIN db.user
      BY <1>0 DEF GetAgentAPIKeyAuth, References
    <3> QED BY <3>1, <3>2, <3>3 DEF AuthenticateRequest
  <2>2. PICK step : step = Do(r).op
    OBVIOUS
  <2>3. PICK e : e = [req[r] EXCEPT !.auth = auth, !.pc = step]
    OBVIOUS
  <2>4. /\ DOMAIN e = Fields /\ e.do = req[r].do /\ e.pc = step /\ e.auth = auth /\ e.locks = req[r].locks
        /\ e.answer = req[r].answer /\ e.tx = req[r].tx
    BY <1>0, <2>3 DEF RequestShape, Fields
  <2>5. req' = [req EXCEPT ![r] = e] /\ DOMAIN req = Request
    BY <1>4, <2>2, <2>3 DEF Becomes, Inv
  <2>6. req'[r] = e /\ req' = [req EXCEPT ![r] = req'[r]]
    BY <2>5
  <2>7. step \notin Steps /\ IsCommand(Do(r))
    BY <1>0, <1>1, <2>2 DEF RequestOK, At, IsCommand
  <2>8. Grown({}) /\ SessionsKept /\ UsersKept /\ AgentsKept
    BY <1>2, RewritesKeep DEF Inv
  <2>9. CodesOK' /\ PeopleOK' /\ KeysOK' /\ UsesOwn(r)
    <3>1. {} \subseteq Request
      OBVIOUS
    <3>2. CodesOK'
      BY <2>8, <3>1, SessionsKeptOK
    <3>3. PeopleOK'
      BY <2>8, UsersKeptOK
    <3> QED BY <2>8, <3>2, <3>3, AgentsKeptOK, UsedKept
  <2>10. RequestOK(r)'
    <3>1. step # "new" /\ step # "done"
      BY <2>7 DEF Steps
    <3>2. req[r].answer = None
      BY <1>0, <1>1 DEF RequestOK, At
    <3>3. req[r].locks # {} => req[r].tx
      BY <1>0 DEF RequestOK
    <3> QED BY <1>1, <2>1, <2>2, <2>4, <2>6, <2>7, <3>1, <3>2, <3>3 DEF RequestOK, At, Do, Caller, IsCommand
  <2>11. StepOK(r)'
    BY <2>4, <2>6, <2>7, StartStep
  <2>12. \A row \in req'[r].locks : row \in req[r].locks \/ Free(r, row)
    BY <2>4, <2>6
  <2>13. {} = {} \/ ({} = {r} /\ req'[r].pc \in {"done", "send code"})
    OBVIOUS
  <2>14. req[r].pc # "done" /\ (req[r].pc = "send code" => req'[r].pc = "done")
    BY <1>1
  <2>15. \/ req'[r].pc = "done"
         \/ db'.user = db.user /\ db'.room = db.room
    BY <1>1
  <2> QED BY <2>6, <2>8, <2>9, <2>10, <2>11, <2>12, <2>13, <2>14, <2>15, StepInv
<1> QED BY <1>3, <1>4 DEF Authenticate

LEMMA CrashInv ==
  ASSUME Inv, NEW r \in Request, scene' = scene, churn' = churn, Crash(r)
  PROVE  Inv'
<1>1. PICK from : from = {req[r].pc}
  OBVIOUS
<1>2. Refuse(r) \/ Fails(r)
  BY DEF Crash
<1>3. req[r].pc \in from /\ from \cap {"new", "done"} = {}
  BY <1>1 DEF Crash
<1>4. RequestShape(r)
  BY ShapeOK
<1>5. Turn(r, from, {"done"})
  BY <1>2, <1>3, <1>4, RefuseTurn
<1> QED BY <1>2, <1>3, <1>5, NoWrite, RewriteInv

\* The tables change and no request does.
LEMMA WorldInv ==
  ASSUME Inv, req' = req, scene' = scene, churn' \subseteq churn, Rewrites, db'.user = db.user, db'.room = db.room
  PROVE  Inv'
<1>1. Grown({}) /\ SessionsKept /\ UsersKept /\ AgentsKept
  BY RewritesKeep DEF Inv
<1>2. CodesOK' /\ PeopleOK' /\ KeysOK'
  <2>1. {} \subseteq Request
    OBVIOUS
  <2>2. CodesOK'
    BY <1>1, <2>1, SessionsKeptOK
  <2>3. PeopleOK'
    BY <1>1, UsersKeptOK
  <2> QED BY <1>1, <2>2, <2>3, AgentsKeptOK
<1>3. /\ db'.token = db.token /\ DOMAIN db'.agent = DOMAIN db.agent /\ DOMAIN db'.challenge = DOMAIN db.challenge
      /\ \A c \in DOMAIN db.challenge :
           db'.challenge[c].email = db.challenge[c].email /\ db'.challenge[c].used = db.challenge[c].used
  BY DEF Rewrites
<1>4. ASSUME NEW r \in Request
      PROVE  RequestOK(r)' /\ StepOK(r)'
  <2>1. RequestOK(r) /\ SignInOK(r) /\ CallbackOK(r) /\ AgentOK(r) /\ RoomOK(r)
    BY DEF Inv, StepOK
  <2>2. RequestOK(r)'
    BY <2>1 DEF RequestOK, At, Do, Caller
  <2>3. SignInOK(r)'
    BY <1>3, <2>1 DEF SignInOK, At, Do, Got
  <2>4. CallbackOK(r)'
    BY <2>1 DEF CallbackOK, At, Do, Got
  <2>5. Answered' = Answered
    BY DEF Answered, At
  <2>6. AgentOK(r)'
    BY <1>3, <2>1, <2>5 DEF AgentOK, At, Do, Got
  <2>7. RoomOK(r)'
    BY <2>1, <2>5 DEF RoomOK, At, Do, Got
  <2> QED BY <2>2, <2>3, <2>4, <2>6, <2>7 DEF StepOK
<1>5. Fresh'
  <2>1. \A t \in NamedByRequest : DOMAIN db'[t] \subseteq DOMAIN db[t]
    BY <1>1 DEF Grown
  <2> QED BY <2>1 DEF Inv, Fresh
<1>6. LocksApart'
  BY DEF Inv, LocksApart
<1>7. DOMAIN req' = Request /\ scene' \in DOMAIN Scenes /\ churn' \subseteq Here'.churn
  BY DEF Inv, Here
<1> QED BY <1>1, <1>2, <1>4, <1>5, <1>6, <1>7 DEF Inv, Grown

LEMMA ChurnInv ==
  ASSUME Inv, scene' = scene, Churn
  PROVE  Inv'
<1>1. PICK change \in churn : db' = Changed(change) /\ churn' = churn \ {change}
  BY DEF Churn
<1>2. change[1] \in {"expire", "end", "suspend", "leave"}
  BY ScenesAssumption DEF Inv, Here
<1>3. IsTables(db) /\ DOMAIN db = TableNames
  BY DEF Inv, IsTables
<1>4. CASE change[1] = "expire"
  <2>1. PICK c : c = change[2]
    OBVIOUS
  <2>2. PICK row : row = [db.challenge[c] EXCEPT !.expired = TRUE]
    OBVIOUS
  <2>3. db' = [db EXCEPT !.challenge[c].expired = TRUE]
    BY <1>1, <1>4, <2>1 DEF Changed
  <2>4. Only(db, db', {"challenge"}) /\ db'.challenge = [db.challenge EXCEPT ![c] = row]
    BY <1>3, <2>2, <2>3 DEF Only, TableNames
  <2>5. c \in DOMAIN db.challenge => /\ DOMAIN row = DOMAIN db.challenge[c] /\ row.email = db.challenge[c].email
                                     /\ row.used = db.challenge[c].used
    BY <1>3, <2>2 DEF IsTables
  <2>6. Rewrites /\ db'.user = db.user /\ db'.room = db.room
    BY <1>3, <2>4, <2>5 DEF Only, TableNames, Rewrites
  <2> QED BY <1>1, <2>6, WorldInv DEF Churn
<1>5. CASE change[1] = "end"
  <2>1. PICK s : s = change[2]
    OBVIOUS
  <2>2. PICK row : row = [db.session[s] EXCEPT !.live = FALSE]
    OBVIOUS
  <2>3. db' = [db EXCEPT !.session[s].live = FALSE]
    BY <1>1, <1>5, <2>1 DEF Changed, RevokeAuthSession
  <2>4. Only(db, db', {"session"}) /\ db'.session = [db.session EXCEPT ![s] = row]
    BY <1>3, <2>2, <2>3 DEF Only, TableNames
  <2>5. s \in DOMAIN db.session => /\ DOMAIN row = DOMAIN db.session[s] /\ row.user = db.session[s].user
                                   /\ row.by = db.session[s].by
    BY <1>3, <2>2 DEF IsTables
  <2>6. Rewrites
    BY <1>3, <2>4, <2>5, RewritesSession
  <2>7. db'.user = db.user /\ db'.room = db.room
    BY <2>4 DEF Only, TableNames
  <2> QED BY <1>1, <2>6, <2>7, WorldInv DEF Churn
<1>6. CASE change[1] \in {"suspend", "leave"}
  <2>1. /\ Only(db, db', {"member", "seat"}) /\ DOMAIN db'.member = DOMAIN db.member /\ db'.seat \subseteq db.seat
    <3>1. CASE change[1] = "suspend"
      <4>1. PICK w : w = change[2]
        OBVIOUS
      <4>2. PICK u : u = change[3]
        OBVIOUS
      <4>3. db' = Suspend(w, u)
        BY <1>1, <3>1, <4>1, <4>2 DEF Changed
      <4>4. PICK member : member = <<w, u>>
        OBVIOUS
      <4>5. db' = [db EXCEPT !.member[member] = "suspended",
                             !.seat = {s \in @ : s[2] # u \/ db.room[s[1]].space # w \/ db.room[s[1]].policy # "members"}]
        BY <4>3, <4>4 DEF Suspend
      <4> QED BY <1>3, <4>5 DEF Only, TableNames
    <3>2. CASE change[1] = "leave"
      <4>1. PICK c : c = change[2]
        OBVIOUS
      <4>2. PICK u : u = change[3]
        OBVIOUS
      <4>3. db' = [db EXCEPT !.seat = @ \ {<<c, u>>}]
        BY <1>1, <3>2, <4>1, <4>2 DEF Changed, DeleteConversationParticipant
      <4> QED BY <1>3, <4>3 DEF Only, TableNames
    <3> QED BY <1>6, <3>1, <3>2
  <2>2. Rewrites /\ db'.user = db.user /\ db'.room = db.room
    BY <2>1 DEF Only, TableNames, Rewrites
  <2> QED BY <1>1, <2>2, WorldInv DEF Churn
<1> QED BY <1>2, <1>4, <1>5, <1>6

LEMMA ProjectInv ==
  ASSUME Inv, scene' = scene, churn' = churn, Project
  PROVE  Inv'
<1>1. IsTables(db) /\ DOMAIN db = TableNames /\ req' = req
  BY DEF Inv, IsTables, Project
<1>2. PICK n, row, i : db' = [Add(db, "event", n, row) EXCEPT !.told = @ \ {i}]
  <2>1. PICK i \in db.told :
          db' = [Add(db, "event", Max0(DOMAIN db.event) + 1,
                     [space |-> i.space,
                      feeds |-> (IF i.kind = "workspace" THEN {} ELSE {<<i.kind, i.id>>})
                                \cup (IF i.space = None THEN {} ELSE {<<"workspace", i.space>>})])
                 EXCEPT !.told = @ \ {i}]
    BY DEF Project
  <2> QED BY <2>1
<1>3. PICK d : d = Add(db, "event", n, row)
  OBVIOUS
<1>4. AddsRow(db, d, "event", n, row)
  <2>1. "event" \in TableNames
    BY DEF TableNames
  <2> QED BY <1>1, <1>3, <2>1, AddOnly
<1>5. Only(db, db', {"event", "told"})
  BY <1>2, <1>3, <1>4 DEF AddsRow, Only
<1>6. Only(db, db', {"told", "state", "read", "event", "clock"})
  BY <1>5 DEF Only
<1>7. Rewrites
  BY <1>1, <1>6, RewritesOther
<1>8. db'.user = db.user /\ db'.room = db.room
  BY <1>5 DEF Only, TableNames
<1> QED BY <1>1, <1>7, <1>8, WorldInv

-----------------------------------------------------------------------------
(***************************************************************************)
(* The invariant, and the properties that follow from it.                  *)
(***************************************************************************)

LEMMA InitInv == Init => Inv
<1>1. SUFFICES ASSUME Init PROVE Inv
  OBVIOUS
<1>2. /\ scene \in DOMAIN Scenes /\ db = Scenes[scene].db /\ churn = Here.churn
      /\ req = [r \in Request |-> New]
  BY <1>1 DEF Init, Here
<1>3. IsTables(db) /\ References(db) /\ UniqueRows(db) /\ BeforeRequests(db)
  BY <1>2, ScenesAssumption
<1>4. DOMAIN req = Request /\ \A r \in Request : req[r] = New
  BY <1>2
<1>5. DOMAIN New = Fields /\ New.pc = "new" /\ New.auth = None /\ New.locks = {} /\ New.answer = None
  BY DEF New, Fields
<1>6. \A r \in Request : RequestOK(r)
  BY <1>4, <1>5 DEF RequestOK, Steps, At, Caller
<1>7. \A r \in Request : StepOK(r)
  BY <1>4, <1>5 DEF StepOK, SignInOK, SignInSteps, CallbackOK, CallbackSteps, AgentOK, TokenSteps, RoomOK, At
<1>8. Fresh
  BY <1>3 DEF Fresh, BeforeRequests
<1>9. LocksApart
  BY <1>4, <1>5 DEF LocksApart
<1>10. CodesOK
  BY <1>3 DEF CodesOK, BeforeRequests
<1>11. PeopleOK
  BY <1>3 DEF PeopleOK, UniqueRows, BeforeRequests, Person
<1>12. KeysOK
  BY <1>3 DEF KeysOK, UniqueRows
<1> QED BY <1>2, <1>3, <1>4, <1>6, <1>7, <1>8, <1>9, <1>10, <1>11, <1>12 DEF Inv

LEMMA ServeInv ==
  ASSUME Inv, NEW r \in Request, Serve(r)
  PROVE  Inv'
<1>1. scene' = scene /\ churn' = churn
  BY DEF Serve
<1>2. CASE AccessStep(r)
  BY <1>1, <1>2, InsertsInv, RewritersInv, ReadersInv, SignInLooksInv, CallbackLooksInv, SignInsInv,
     AgentLooksInv, NewTokenInv, PostAgentInv DEF AccessStep
<1>3. CASE MessagingStep(r)
  BY <1>1, <1>3, InsertsInv, RewritersInv, ReadersInv, RoomLooksInv DEF MessagingStep
<1>4. CASE SearchStep(r)
  BY <1>1, <1>4, ReadersInv DEF SearchStep
<1>5. CASE Send(r)
  BY <1>1, <1>5, SendInv
<1>6. CASE Authenticate(r)
  BY <1>1, <1>6, AuthenticateInv
<1> QED BY <1>2, <1>3, <1>4, <1>5, <1>6 DEF Serve, Step

LEMMA NextInv == Inv /\ [Next]_vars => Inv'
<1>1. SUFFICES ASSUME Inv, [Next]_vars PROVE Inv'
  OBVIOUS
<1>2. ASSUME NEW r \in Request, Serve(r) PROVE Inv'
  BY <1>1, <1>2, ServeInv
<1>3. CASE Others
  <2>1. scene' = scene
    BY <1>3 DEF Others
  <2>2. CASE Churn
    BY <1>1, <2>1, <2>2, ChurnInv
  <2>3. CASE Project /\ churn' = churn
    BY <1>1, <2>1, <2>3, ProjectInv
  <2>4. CASE churn' = churn /\ db' = db /\ req' = req
    BY <1>1, <2>1, <2>4, SameRewrites, WorldInv DEF Inv
  <2>5. ASSUME churn' = churn, NEW r \in Request, Crash(r) PROVE Inv'
    BY <1>1, <2>1, <2>5, CrashInv
  <2> QED BY <1>3, <2>2, <2>3, <2>4, <2>5 DEF Others
<1>4. CASE UNCHANGED <<scene, db, req, churn>>
  BY <1>1, <1>4, SameRewrites, WorldInv DEF Inv
<1>5. UNCHANGED vars => UNCHANGED <<scene, db, req, churn>>
  BY DEF vars
<1> QED BY <1>1, <1>2, <1>3, <1>4, <1>5 DEF Next

\* The invariant holds in every state of the service.
THEOREM ServiceInv == Spec => []Inv
BY InitInv, NextInv, PTL DEF Spec

\* The type invariant: only a transaction holds locks (routes_core.go,
\* db.WithTx), a request has an answer exactly when it is done, its caller is a
\* user, and rows refer to rows that are there (the foreign keys of
\* internal/migrations).
THEOREM ServiceTypeOK == Spec => []TypeOK
<1>1. Inv => TypeOK
  <2>1. SUFFICES ASSUME Inv, NEW r \in Request, ~(req[r].pc \in Steps) PROVE Do(r) # None
    BY DEF Inv, TypeOK, RequestOK
  <2> QED BY <2>1 DEF Inv, RequestOK, IsCommand, At, Steps
<1> QED BY <1>1, ServiceInv, PTL

\* A code that is presented by several requests at once opens one session: the
\* row is locked, and read again, before it is consumed (routes_core.go,
\* handleVerifyEmail).
THEOREM CodesAreUsedOnce == Spec => []CodeUsedOnce
<1>1. ASSUME Inv, NEW c \in DOMAIN db.challenge
      PROVE  Cardinality({s \in DOMAIN db.session : db.session[s].by = <<"code", c>>}) <= 1
  <2>1. PICK S : S = {s \in DOMAIN db.session : db.session[s].by = <<"code", c>>}
    OBVIOUS
  <2>2. \A s, t \in S : s = t
    BY <1>1, <2>1 DEF Inv, CodesOK
  <2>3. S = {} \/ \E s : S = {s}
    BY <2>2
  <2>4. Cardinality(S) = 0 \/ Cardinality(S) = 1
    BY <2>3, FS_EmptySet, FS_Singleton
  <2>5. Cardinality(S) <= 1
    BY <2>4
  <2> QED BY <2>1, <2>5
<1>2. Inv => CodeUsedOnce
  BY <1>1 DEF CodeUsedOnce
<1> QED BY <1>2, ServiceInv, PTL

\* Who can read an address signs in as one user, by a code or by an identity of
\* a provider, however the sign-ins overlap: the user is found again by its
\* address or made with it, and the address is unique (routes_core.go,
\* resolveUserByEmail; oauth.go, resolveOrCreateOAuthUser).
THEOREM PeopleAreOneUser == Spec => []OneUserPerPerson
<1>1. ASSUME Inv, NEW s \in DOMAIN db.session, NEW t \in DOMAIN db.session,
             Person(db.session[s].by) # None, Person(db.session[s].by) = Person(db.session[t].by)
      PROVE  db.session[s].user = db.session[t].user
  <2>1. db.session[s].user \in DOMAIN db.user /\ db.session[t].user \in DOMAIN db.user
    BY <1>1 DEF Inv, References
  <2>2. PICK p : p = Person(db.session[s].by)
    OBVIOUS
  <2>3. db.user[db.session[s].user].email = p /\ db.user[db.session[t].user].email = p /\ p # None
    BY <1>1, <2>2 DEF Inv, PeopleOK
  <2> QED BY <1>1, <2>1, <2>3 DEF Inv, PeopleOK
<1>2. Inv => OneUserPerPerson
  BY <1>1 DEF OneUserPerPerson
<1> QED BY <1>2, ServiceInv, PTL

\* An agent has exactly one key that works in every state, whichever requests
\* create, read and rotate it together (routes_agents.go,
\* handleRotateAgentAPIKey, and the unique index on the live key).
THEOREM AgentsKeepTheirKey == Spec => []AgentKeepsKey
<1>1. ASSUME Inv, NEW a \in DOMAIN db.agent
      PROVE  Cardinality(LiveTokens(db, a)) = 1
  <2>1. PICK t : LiveTokens(db, a) = {t}
    BY <1>1 DEF Inv, KeysOK
  <2> QED BY <2>1, FS_Singleton
<1>2. Inv => AgentKeepsKey
  BY <1>1 DEF AgentKeepsKey
<1> QED BY <1>2, ServiceInv, PTL

\* A change is written back by the request itself, in one of two steps.
LEMMA OwnTurn ==
  ASSUME Inv, NEW q \in Request, Step(q)
  PROVE  req' = [req EXCEPT ![q] = req'[q]]
<1>1. RequestShape(q)
  BY ShapeOK
<1>2. CASE AccessStep(q)
  BY <1>1, <1>2, SignInTurns, AccountTurns DEF AccessStep, Turn
<1>3. CASE MessagingStep(q)
  BY <1>1, <1>3, MessageTurns, ReadTurns DEF MessagingStep, Turn
<1>4. CASE SearchStep(q)
  BY <1>1, <1>4, SearchTurns DEF SearchStep, Turn
<1>5. ASSUME NEW e, Becomes(q, e) PROVE req' = [req EXCEPT ![q] = req'[q]]
  BY <1>1, <1>5 DEF Becomes, RequestShape
<1>6. CASE Send(q)
  BY <1>5, <1>6 DEF Send
<1>7. CASE Authenticate(q)
  BY <1>5, <1>7 DEF Authenticate, Answer
<1> QED BY <1>2, <1>3, <1>4, <1>6, <1>7 DEF Step

LEMMA PatchSteps ==
  ASSUME Inv, NEW r \in Request, Step(r), req[r].pc \in {"update room", "update agent"}
  PROVE  (At(r, "update room") /\ PatchConversation(r)) \/ (At(r, "update agent") /\ PatchAgent(r))
<1>1. RequestShape(r)
  BY ShapeOK
<1>2. CASE AccessStep(r)
  BY <1>1, <1>2, SignInTurns, AccountTurns DEF AccessStep, Turn, AgentOp, At
<1>3. CASE MessagingStep(r)
  BY <1>1, <1>3, MessageTurns, ReadTurns DEF MessagingStep, Turn, ReadOps, ListOps, At
<1>4. CASE SearchStep(r)
  BY <1>1, <1>4, SearchTurns DEF SearchStep, Turn
<1>5. ~Send(r) /\ ~Authenticate(r)
  BY DEF Send, Authenticate, At
<1> QED BY <1>2, <1>3, <1>4, <1>5 DEF Step

LEMMA PatchOverlaps ==
  ASSUME Inv, NEW r \in Request, Step(r), req[r].pc \in {"update room", "update agent"}, NotNamed(r)
  PROVE  Answered \ Got(r).before # {}
<1>1. AgentOK(r) /\ RoomOK(r) /\ IsTables(db) /\ DOMAIN db.agent \subseteq DOMAIN db.user
  BY DEF Inv, StepOK, References
<1>2. CASE At(r, "update room") /\ PatchConversation(r)
  <2>1. /\ Do(r).op = "patchRoom" /\ Do(r).room \in DOMAIN db.room
        /\ Answered \subseteq Got(r).before => db.room[Do(r).room].archived = Got(r).archived
    BY <1>1, <1>2 DEF RoomOK, At
  <2>2. db'.room[Do(r).room].archived = IF Do(r).archived = None THEN Got(r).archived ELSE Do(r).archived
    BY <1>1, <1>2, <2>1, PatchRoomWrites
  <2>3. Do(r).archived = None /\ db'.room[Do(r).room].archived # db.room[Do(r).room].archived
    BY <2>1 DEF NotNamed
  <2> QED BY <2>1, <2>2, <2>3
<1>3. CASE At(r, "update agent") /\ PatchAgent(r)
  <2>1. /\ Do(r).op = "patchAgent" /\ Do(r).agent \in DOMAIN db.user
        /\ Answered \subseteq Got(r).before => db.user[Do(r).agent].handle = Got(r).user.handle
    BY <1>1, <1>3 DEF AgentOK, At
  <2>2. Do(r).handle = None /\ db'.user[Do(r).agent].handle # db.user[Do(r).agent].handle
    BY <2>1 DEF NotNamed
  <2>3. ~(Refuse(r) \/ Fails(r))
    BY <2>2 DEF Refuse, Fails
  <2>4. db'.user[Do(r).agent].handle \in {db.user[Do(r).agent].handle, Got(r).user.handle}
    BY <1>1, <1>3, <2>1, <2>2, <2>3, PatchAgentWrites
  <2> QED BY <2>1, <2>2, <2>4
<1> QED BY <1>2, <1>3, PatchSteps

\* A change that does not name a conversation's archived mark or an agent's
\* handle, and changes it, overlapped the request that set it: what is written
\* back is what was read, and nobody who was answered before that has changed
\* it since (routes_messaging.go, handlePatchConversation; routes_agents.go,
\* handlePatchAgent).
THEOREM PatchesUndoOnlyOverlapping == Spec => PatchUndoesOnlyOverlapping
<1>1. ASSUME Inv, [Next]_vars, NEW r \in Request,
             req[r].pc \in {"update room", "update agent"}, req'[r].pc = "done", NotNamed(r)
      PROVE  Answered \ Got(r).before # {}
  <2>1. req'[r] # req[r] /\ req[r].pc # "done"
    BY <1>1
  <2>2. ASSUME NEW q \in Request, Serve(q) PROVE q = r /\ Step(r)
    <3>1. req' = [req EXCEPT ![q] = req'[q]]
      BY <1>1, <2>2, OwnTurn DEF Serve
    <3>2. DOMAIN req = Request
      BY <1>1 DEF Inv
    <3>3. q = r
      BY <2>1, <3>1, <3>2
    <3> QED BY <2>2, <3>3 DEF Serve
  <2>3. db' # db
    BY <1>1 DEF NotNamed
  <2>4. ~Others
    BY <2>1, <2>3 DEF Others, Churn, Project, Crash, Fails
  <2>5. req' # req
    BY <2>1
  <2> QED BY <1>1, <2>2, <2>4, <2>5, PatchOverlaps DEF Next, vars
<1>2. Inv /\ [Next]_vars =>
        [\A r \in Request : req[r].pc \in {"update room", "update agent"} /\ req'[r].pc = "done" /\ NotNamed(r)
           => Answered \ Got(r).before # {}]_vars
  BY <1>1
<1> QED BY <1>2, ServiceInv, PTL DEF Spec, PatchUndoesOnlyOverlapping

-----------------------------------------------------------------------------
(***************************************************************************)
(* What is shown: the invariant behind ShownIsVisible and                  *)
(* PagesMissNothing.                                                       *)
(***************************************************************************)

Searching == {"principals", "candidates", "hydrate"}
AsideSteps == {"send code", "lock challenge", "resolve user", "sign in", "exchange", "delete state",
  "find account", "account's email", "enter", "revoke key", "update agent", "select token",
  "revoke token", "lock token", "lock old token", "new token", "update room", "insert message",
  "mark read", "insert sub", "check sub", "write sub"}
Elsewhere == AsideSteps \cup {"edit", "delete"}

\* The command that leads to a place, and what a list has found so far.
ListFields == {"cursor", "shown", "start"}
PlaceOK(r) ==
  /\ At(r, "new") => Got(r) = Nothing
  /\ At(r, "page") => Do(r).op \in ListOps /\ DOMAIN Got(r) = ListFields
  /\ ~At(r, "new") /\ Do(r).op \in ListOps =>
       (Got(r) = Nothing /\ req[r].answer # "ok") \/ DOMAIN Got(r) = ListFields
  /\ req[r].pc \in Searching => Do(r).op = "search"
  /\ req[r].pc \in Elsewhere => Do(r).op \notin ReadOps \cup ListOps \cup {"search"}
  /\ req[r].pc \in ReadOps \cup {"authenticate"} /\ Do(r).op \in ReadOps => Got(r) = Nothing

\* What the indexer has written of a resource, and a search has found: it says
\* where the resource is, and that does not change.
DocOK(d) ==
  /\ d.kind \in DOMAIN Table
  /\ d.kind = "message" => d.id \in DOMAIN db.message /\ d.space = db.room[db.message[d.id].room].space
  /\ d.kind = "conversation" => d.id \in DOMAIN db.room /\ d.space = db.room[d.id].space
  /\ d.kind = "workspace" => d.space = d.id
  /\ d.kind = "user" /\ d.room # None => d.room \in DOMAIN db.room /\ db.room[d.room].policy = "members"
  /\ d.kind = "event" => d.id \in DOMAIN db.event /\ (d.space # None => d.space = db.event[d.id].space)

\* A workspace key lists and searches its workspace.
HitFields == {"space", "shown", "found", "left", "hits", "all"}
KeyScoped(r) ==
  /\ At(r, "page") /\ Do(r).op = "listEvents" /\ Caller(r).space # None => Do(r).space = Caller(r).space
  /\ req[r].pc \in Searching /\ Caller(r).space # None => SearchedSpace(Caller(r), Do(r)) = Caller(r).space
  /\ req[r].pc \in {"candidates", "hydrate"} => Got(r).space = SearchedSpace(Caller(r), Do(r))
  /\ At(r, "hydrate") => DOMAIN Got(r) = HitFields
       /\ \A d \in Got(r).found : DocOK(d) /\ (Got(r).space # None => d.space = Got(r).space)
  /\ req[r].pc \in {"edit", "delete"} => Got(r) \in DOMAIN db.room

\* Of a list of messages: what was there at the first page and has not been
\* shown has as many messages before it as there are on the pages so far.
Newer(m) == {x \in MessagesOf(db.message[m].room) : db.message[x].at > db.message[m].at}
AtLeast(n, S) == \E f \in [1 .. n -> S] : \A i, k \in 1 .. n : f[i] = f[k] => i = k
Ahead(r, m) == <<"message", m>> \in Got(r).shown \/ AtLeast(Got(r).cursor, Newer(m))
PagesOK(r) == Do(r) # None /\ Do(r).op = "listMessages" /\ Got(r) # Nothing =>
  /\ Got(r).cursor \in Nat /\ Got(r).start \subseteq MessagesOf(Do(r).room)
  /\ \A m \in Got(r).start : Ahead(r, m)
  /\ At(r, "done") /\ req[r].answer = "ok" => \A m \in Got(r).start : <<"message", m>> \in Got(r).shown

\* The times of messages, and those drawn for messages to come.
TimesOK ==
  /\ TimesApart(db)
  /\ \A r \in Request : At(r, "insert message") =>
       /\ Got(r) \in Nat /\ Got(r) <= db.clock
       /\ \A m \in DOMAIN db.message : db.message[m].at # Got(r)
       /\ \A q \in Request : q # r /\ At(q, "insert message") => Got(q) # Got(r)

RequestShows(r) == PlaceOK(r) /\ KeyScoped(r) /\ PagesOK(r)

ShowInv ==
  /\ \A r \in Request : RequestShows(r)
  /\ EventsFit(db) /\ \A d \in index : DocOK(d)
  /\ TimesOK

\* What a step leaves of the rows: conversations keep their workspace and who
\* is let in, messages their conversation and time, events all.
Stays ==
  /\ \A c \in DOMAIN db.room : /\ c \in DOMAIN db'.room
       /\ db'.room[c].space = db.room[c].space /\ db'.room[c].policy = db.room[c].policy
  /\ \A m \in DOMAIN db.message : /\ m \in DOMAIN db'.message
       /\ db'.message[m].room = db.message[m].room /\ db'.message[m].at = db.message[m].at
  /\ \A e \in DOMAIN db.event : e \in DOMAIN db'.event /\ db'.event[e] = db.event[e]

\* A step that changes none of them, and tells of no conversation.
Quiet ==
  /\ db'.room = db.room /\ db'.message = db.message /\ db'.event = db.event
  /\ \A i \in db'.told : i \in db.told \/ i.kind \in {"user", "workspace"}

LEMMA QuietStays == ASSUME Quiet PROVE Stays
BY DEF Quiet, Stays

LEMMA SameQuiet == ASSUME db' = db PROVE Quiet
BY DEF Quiet

\* The same of two states of the tables, on the way of a transaction.
Unshown(d, e) ==
  /\ DOMAIN e = TableNames
  /\ e.room = d.room /\ e.message = d.message /\ e.event = d.event /\ e.clock = d.clock
  /\ \A i \in e.told : i \in d.told \/ i.kind \in {"user", "workspace"}

LEMMA UnshownQuiet == ASSUME Unshown(db, db') PROVE Quiet /\ db'.clock = db.clock
BY DEF Unshown, Quiet

LEMMA UnshownTwice ==
  ASSUME NEW d, NEW e, NEW f, Unshown(d, e), Unshown(e, f)
  PROVE  Unshown(d, f)
BY DEF Unshown

LEMMA UnshownOnly ==
  ASSUME NEW d, NEW e, NEW S, Only(d, e, S), S \cap {"room", "message", "event", "told", "clock"} = {}
  PROVE  Unshown(d, e)
BY DEF Unshown, Only, TableNames

LEMMA UnshownAdd ==
  ASSUME NEW d, DOMAIN d = TableNames, NEW t \in TableNames \ {"room", "message", "event", "told", "clock"},
         NEW id, NEW row, NEW e, e = Add(d, t, id, row)
  PROVE  Unshown(d, e)
<1>1. Only(d, e, {t})
  BY AddOnly DEF AddsRow
<1>2. {t} \cap {"room", "message", "event", "told", "clock"} = {}
  OBVIOUS
<1> QED BY <1>1, <1>2, UnshownOnly

LEMMA UnshownTold ==
  ASSUME NEW d, DOMAIN d = TableNames, NEW r, NEW kind \in {"user", "workspace"}, NEW id, NEW space,
         NEW e, e = InsertInternalEvent(d, r, kind, id, space)
  PROVE  Unshown(d, e)
<1>1. Only(d, e, {"told"})
  BY ToldOnly
<1>2. PICK i : i = [by |-> r, kind |-> kind, id |-> id, space |-> space]
  OBVIOUS
<1>3. e.told = d.told \cup {i} /\ i.kind = kind
  BY <1>2 DEF InsertInternalEvent, TableNames
<1>4. e.room = d.room /\ e.message = d.message /\ e.event = d.event /\ e.clock = d.clock
  BY <1>1 DEF Only, TableNames
<1>5. DOMAIN e = TableNames
  BY <1>1 DEF Only
<1> QED BY <1>3, <1>4, <1>5 DEF Unshown

LEMMA DocStays ==
  ASSUME Inv, Stays, NEW d, DocOK(d)
  PROVE  DocOK(d)'
<1>1. References(db)
  BY DEF Inv
<1>2. \A m \in DOMAIN db.message : db.message[m].room \in DOMAIN db.room
  BY <1>1 DEF References
<1>3. d.kind = "message" => d.id \in DOMAIN db'.message /\ d.space = db'.room[db'.message[d.id].room].space
  BY <1>2 DEF Stays, DocOK
<1>4. d.kind = "conversation" => d.id \in DOMAIN db'.room /\ d.space = db'.room[d.id].space
  BY DEF Stays, DocOK
<1>5. d.kind = "user" /\ d.room # None => d.room \in DOMAIN db'.room /\ db'.room[d.room].policy = "members"
  BY DEF Stays, DocOK
<1>6. d.kind = "event" => d.id \in DOMAIN db'.event /\ (d.space # None => d.space = db'.event[d.id].space)
  BY DEF Stays, DocOK
<1> QED BY <1>3, <1>4, <1>5, <1>6 DEF DocOK

\* The events and the feeds fit, when those that are told do.
LEMMA FitStays ==
  ASSUME Stays, NEW i, Fits(i, db)
  PROVE  Fits(i, db')
BY DEF Stays, Fits

LEMMA FeedStays ==
  ASSUME Stays, NEW f, NEW space, FeedFits(f, space, db)
  PROVE  FeedFits(f, space, db')
BY DEF Stays, FeedFits

LEMMA EventsStay ==
  ASSUME Stays, EventsFit(db), db'.event = db.event,
         \A i \in db'.told : i \in db.told \/ Fits(i, db')
  PROVE  EventsFit(db')
<1>1. \A i \in db'.told : Fits(i, db')
  BY FitStays DEF EventsFit
<1>2. \A e \in DOMAIN db'.event : \A f \in db'.event[e].feeds : FeedFits(f, db'.event[e].space, db')
  BY FeedStays DEF EventsFit
<1> QED BY <1>1, <1>2 DEF EventsFit

LEMMA QuietEvents ==
  ASSUME Quiet, EventsFit(db)
  PROVE  EventsFit(db')
<1>1. \A i : i.kind \in {"user", "workspace"} => Fits(i, db')
  BY DEF Fits
<1>2. \A i \in db'.told : i \in db.told \/ Fits(i, db')
  BY <1>1 DEF Quiet
<1>3. db'.event = db.event
  BY DEF Quiet
<1> QED BY <1>2, <1>3, QuietStays, EventsStay

\* No message comes and no time is drawn.
LEMMA TimesStay ==
  ASSUME Inv, Stays, TimesOK, NEW r \in Request, req' = [req EXCEPT ![r] = req'[r]],
         db'.clock = db.clock, DOMAIN db'.message = DOMAIN db.message, req'[r].pc # "insert message"
  PROVE  TimesOK'
<1>1. \A q \in Request : req'[q].pc = "insert message" => req'[q] = req[q]
  BY DEF Inv
<1>2. \A m \in DOMAIN db.message : db'.message[m].at = db.message[m].at
  BY DEF Stays
<1>3. TimesApart(db')
  BY <1>2 DEF TimesOK, TimesApart
<1>4. ASSUME NEW q \in Request, req'[q].pc = "insert message"
      PROVE  /\ req'[q].got \in Nat /\ req'[q].got <= db'.clock
             /\ \A m \in DOMAIN db'.message : db'.message[m].at # req'[q].got
             /\ \A p \in Request : p # q /\ req'[p].pc = "insert message" => req'[q].got # req'[p].got
  BY <1>1, <1>2, <1>4 DEF TimesOK, At, Got
<1> QED BY <1>3, <1>4 DEF TimesOK, At, Got

\* Of the requests that do not step.
LEMMA AtLeastMore ==
  ASSUME NEW n, NEW S, NEW T, S \subseteq T, AtLeast(n, S)
  PROVE  AtLeast(n, T)
<1>1. PICK f \in [1 .. n -> S] : \A i, k \in 1 .. n : f[i] = f[k] => i = k
  BY DEF AtLeast
<1>2. f \in [1 .. n -> T]
  BY <1>1
<1> QED BY <1>1, <1>2 DEF AtLeast

LEMMA AheadStays ==
  ASSUME Inv, Stays, NEW r, req'[r] = req[r], NEW m \in DOMAIN db.message, Ahead(r, m)
  PROVE  Ahead(r, m)'
<1>1. PICK S : S = Newer(m)
  OBVIOUS
<1>2. PICK T : T = Newer(m)'
  OBVIOUS
<1>3. S \subseteq T
  BY <1>1, <1>2 DEF Newer, MessagesOf, Stays
<1>4. AtLeast(Got(r).cursor, S) => AtLeast(Got(r).cursor, T)
  BY <1>3, AtLeastMore
<1>5. (<<"message", m>> \in Got(r).shown)' <=> <<"message", m>> \in Got(r).shown
  BY DEF Got
<1>6. Ahead(r, m)' <=> (<<"message", m>> \in Got(r).shown)' \/ AtLeast(Got(r).cursor, T)
  BY <1>2 DEF Ahead, Got, AtLeast
<1> QED BY <1>1, <1>4, <1>5, <1>6 DEF Ahead

LEMMA OtherShows ==
  ASSUME Inv, Stays, NEW r \in Request, req'[r] = req[r], RequestShows(r)
  PROVE  RequestShows(r)'
<1>1. PlaceOK(r)'
  BY DEF RequestShows, PlaceOK, At, Do, Got
<1>2. KeyScoped(r)'
  <2>1. KeyScoped(r)
    BY DEF RequestShows
  <2>2. \A d : DocOK(d) => DocOK(d)'
    BY DocStays
  <2>3. \A c \in DOMAIN db.room : c \in DOMAIN db'.room
    BY DEF Stays
  <2> QED BY <2>1, <2>2, <2>3 DEF KeyScoped, At, Do, Got, Caller, SearchedSpace
<1>3. PagesOK(r)'
  <2>1. PagesOK(r)
    BY DEF RequestShows
  <2>2. MessagesOf(Do(r).room) \subseteq MessagesOf(Do(r).room)'
    BY DEF MessagesOf, Stays, Do
  <2>3. \A m \in MessagesOf(Do(r).room) : Ahead(r, m) => Ahead(r, m)'
    <3>1. MessagesOf(Do(r).room) \subseteq DOMAIN db.message
      BY DEF MessagesOf
    <3> QED BY <3>1, AheadStays
  <2>4. SUFFICES ASSUME (Do(r) # None /\ Do(r).op = "listMessages" /\ Got(r) # Nothing)'
                 PROVE  PagesOK(r)'
    BY DEF PagesOK
  <2>5. /\ Got(r).cursor \in Nat /\ Got(r).start \subseteq MessagesOf(Do(r).room)
        /\ \A m \in Got(r).start : Ahead(r, m)
        /\ At(r, "done") /\ req[r].answer = "ok" => \A m \in Got(r).start : <<"message", m>> \in Got(r).shown
    BY <2>1, <2>4 DEF PagesOK, Do, Got
  <2>6. Got(r)' = Got(r) /\ Do(r)' = Do(r)
    BY DEF Got, Do
  <2>7. \A m \in Got(r).start : Ahead(r, m)'
    BY <2>3, <2>5
  <2>8. Got(r).start \subseteq MessagesOf(Do(r).room)'
    BY <2>2, <2>5
  <2> QED BY <2>5, <2>6, <2>7, <2>8 DEF PagesOK, At, Got
<1> QED BY <1>1, <1>2, <1>3 DEF RequestShows

\* The whole: a step of r.
LEMMA ShowStep ==
  ASSUME Inv, ShowInv, NEW r \in Request, req' = [req EXCEPT ![r] = req'[r]], index' = index,
         Stays, RequestShows(r)', EventsFit(db'), TimesOK'
  PROVE  ShowInv'
<1>1. \A q \in Request : RequestShows(q)'
  <2>1. \A q \in Request : q # r => req'[q] = req[q]
    BY DEF Inv
  <2>2. \A q \in Request : RequestShows(q)
    BY DEF ShowInv
  <2> QED BY <2>1, <2>2, OtherShows
<1>2. \A d \in index' : DocOK(d)'
  BY DocStays DEF ShowInv
<1>3. EventsFit(db)'
  BY DEF EventsFit, Fits, FeedFits
<1> QED BY <1>1, <1>2, <1>3 DEF ShowInv

-----------------------------------------------------------------------------
(***************************************************************************)
(* The requests that list nothing and search nothing.                      *)
(***************************************************************************)

AsideOps == {"startEmail", "verifyEmail", "startOAuth", "callback", "deleteSession", "patchMe",
  "createKey", "deleteKey", "createAgent", "patchAgent", "getAgentKey", "rotateAgentKey",
  "patchRoom", "post", "editMessage", "deleteMessage", "putRead", "createWorkspace",
  "patchWorkspace", "createSub", "patchSub", "deleteSub"}

LEMMA AsideMembers ==
  /\ "send code" \in AsideSteps /\ "lock challenge" \in AsideSteps /\ "resolve user" \in AsideSteps
  /\ "sign in" \in AsideSteps /\ "exchange" \in AsideSteps /\ "delete state" \in AsideSteps
  /\ "find account" \in AsideSteps /\ "account's email" \in AsideSteps /\ "enter" \in AsideSteps
  /\ "revoke key" \in AsideSteps /\ "update agent" \in AsideSteps /\ "select token" \in AsideSteps
  /\ "revoke token" \in AsideSteps /\ "lock token" \in AsideSteps /\ "lock old token" \in AsideSteps
  /\ "new token" \in AsideSteps /\ "update room" \in AsideSteps /\ "insert message" \in AsideSteps
  /\ "mark read" \in AsideSteps /\ "insert sub" \in AsideSteps /\ "check sub" \in AsideSteps
  /\ "write sub" \in AsideSteps
  /\ "startEmail" \in AsideOps /\ "verifyEmail" \in AsideOps /\ "startOAuth" \in AsideOps
  /\ "callback" \in AsideOps /\ "deleteSession" \in AsideOps /\ "patchMe" \in AsideOps
  /\ "createKey" \in AsideOps /\ "deleteKey" \in AsideOps /\ "createAgent" \in AsideOps
  /\ "patchAgent" \in AsideOps /\ "getAgentKey" \in AsideOps /\ "rotateAgentKey" \in AsideOps
  /\ "patchRoom" \in AsideOps /\ "post" \in AsideOps /\ "editMessage" \in AsideOps
  /\ "deleteMessage" \in AsideOps /\ "putRead" \in AsideOps /\ "createWorkspace" \in AsideOps
  /\ "patchWorkspace" \in AsideOps /\ "createSub" \in AsideOps /\ "patchSub" \in AsideOps
  /\ "deleteSub" \in AsideOps
BY SMTT(30) DEF AsideSteps, AsideOps

LEMMA AsidePlaces ==
  /\ \A x \in AsideOps : x \notin Steps /\ x \notin ReadOps /\ x \notin ListOps /\ x # "search"
  /\ \A x \in AsideSteps : x \in Steps /\ x \notin {"new", "authenticate", "done", "page", "edit", "delete"}
                                       /\ x \notin Searching
  /\ \A x \in ReadOps \cup ListOps \cup {"search"} : x \notin Steps
  /\ Searching \subseteq Steps
<1>1. ASSUME NEW x \in AsideOps PROVE x \notin Steps
  BY Zenon DEF AsideOps, Steps
<1>2. ASSUME NEW x \in AsideOps PROVE x \notin ReadOps /\ x \notin ListOps /\ x # "search"
  BY Zenon DEF AsideOps, ReadOps, ListOps
<1>3. AsideSteps \subseteq Steps
  BY SMTT(30) DEF AsideSteps, Steps
<1>4. ASSUME NEW x \in AsideSteps
      PROVE  x \notin {"new", "authenticate", "done", "page", "edit", "delete"} /\ x \notin Searching
  BY Zenon DEF AsideSteps, Searching
<1>5. \A x \in ReadOps \cup ListOps \cup {"search"} : x \notin Steps
  BY Zenon DEF Steps, ReadOps, ListOps
<1>6. Searching \subseteq Steps
  BY SMTT(30) DEF Steps, Searching
<1> QED BY <1>1, <1>2, <1>3, <1>4, <1>5, <1>6

Aside(places) == \A x \in places : x \in Elsewhere \/ x \in AsideOps
GoesAside(places) == \A x \in places : x \in AsideSteps \/ x = "done"

LEMMA AsideTurn ==
  ASSUME Inv, ShowInv, NEW r \in Request, NEW from, NEW to, Turn(r, from, to),
         Aside(from),
         GoesAside(to)
  PROVE  RequestShows(r)'
<1>1. Do(r).op \notin ReadOps \cup ListOps \cup {"search"}
  <2>1. CASE req[r].pc \in Elsewhere
    BY <2>1 DEF ShowInv, RequestShows, PlaceOK
  <2>2. CASE req[r].pc \in AsideOps
    <3>1. req[r].pc = Do(r).op
      BY <2>2, AsidePlaces, FirstStep
    <3> QED BY <2>2, <3>1, AsidePlaces
  <2> QED BY <2>1, <2>2 DEF Turn, Aside
<1>2. req'[r].do = req[r].do /\ req'[r].pc \in AsideSteps \cup {"done"}
  BY DEF Turn, GoesAside
<1>3. req'[r].pc \notin {"new", "page"} \cup Searching \cup {"edit", "delete"}
  BY <1>2, AsidePlaces DEF Searching
<1>4. PlaceOK(r)'
  BY <1>1, <1>2, <1>3 DEF PlaceOK, At, Do
<1>5. KeyScoped(r)'
  BY <1>3 DEF KeyScoped, At, Searching
<1>6. PagesOK(r)'
  <2>1. (Do(r).op = "listMessages")' => FALSE
    BY <1>1, <1>2 DEF Do, ListOps
  <2> QED BY <2>1 DEF PagesOK
<1> QED BY <1>4, <1>5, <1>6 DEF RequestShows

LEMMA QuietTurn ==
  ASSUME Inv, ShowInv, NEW r \in Request, NEW from, NEW to, Turn(r, from, to),
         Aside(from),
         GoesAside(to), "insert message" \notin to,
         Quiet, db'.clock = db.clock, index' = index
  PROVE  ShowInv'
<1>1. RequestShows(r)'
  BY AsideTurn
<1>2. Stays /\ EventsFit(db')
  BY QuietStays, QuietEvents DEF ShowInv
<1>3. req' = [req EXCEPT ![r] = req'[r]] /\ req'[r].pc # "insert message"
  BY DEF Turn
<1>4. TimesOK'
  BY <1>2, <1>3, TimesStay DEF Quiet, ShowInv
<1> QED BY <1>1, <1>2, <1>3, <1>4, ShowStep

LEMMA LookTurn ==
  ASSUME Inv, ShowInv, NEW r \in Request, NEW from, NEW to, Turn(r, from, to) /\ db' = db,
         Aside(from),
         GoesAside(to), "insert message" \notin to,
         index' = index
  PROVE  ShowInv'
BY SameQuiet, QuietTurn

LEMMA UnshownTurn ==
  ASSUME Inv, ShowInv, NEW r \in Request, NEW from, NEW to, Turn(r, from, to),
         Aside(from), GoesAside(to), "insert message" \notin to, Unshown(db, db'), index' = index
  PROVE  ShowInv'
BY UnshownQuiet, QuietTurn

\* The steps that only read.
LEMMA AsideLooksShow ==
  ASSUME Inv, ShowInv, NEW r \in Request, index' = index
  PROVE  /\ SendEmailLoginCode(r) => ShowInv'
         /\ FindChallenge(r) => ShowInv'
         /\ LockChallenge(r) => ShowInv'
         /\ ResolveUserByEmail(r) => ShowInv'
         /\ OAuthCallback(r) => ShowInv'
         /\ Exchange(r) => ShowInv'
         /\ DeleteState(r) => ShowInv'
         /\ FindAccount(r) => ShowInv'
         /\ FindUserOfAccount(r) => ShowInv'
         /\ FindKey(r) => ShowInv'
         /\ LoadAgent(r) => ShowInv'
         /\ SelectToken(r) => ShowInv'
         /\ RevokeToken(r) => ShowInv'
         /\ GetOrCreateAgentKey(r) => ShowInv'
         /\ RotateAgentKey(r) => ShowInv'
         /\ LoadConversation(r) => ShowInv'
         /\ CheckRead(r) => ShowInv'
         /\ CheckSubscription(r) => ShowInv'
         /\ SelectSubscription(r) => ShowInv'
         /\ CheckSubscriptionKey(r) => ShowInv'
         /\ RefuseSubscriptionKey(r) => ShowInv'
<1>0. RequestShape(r)
  BY ShapeOK
<1>1. ASSUME SendEmailLoginCode(r) PROVE ShowInv'
  <2>1. Turn(r, {"send code"}, {"done"}) /\ db' = db
    BY <1>0, <1>1, SignInTurns
  <2>2. Aside({"send code"})
    BY AsideMembers DEF Aside, Elsewhere
  <2>3. GoesAside({"done"})
    BY AsideMembers DEF GoesAside
  <2>4. "insert message" \notin {"done"}
    OBVIOUS
  <2> QED BY <2>1, <2>2, <2>3, <2>4, LookTurn
<1>2. ASSUME FindChallenge(r) PROVE ShowInv'
  <2>1. Turn(r, {"verifyEmail"}, {"lock challenge", "done"}) /\ db' = db
    BY <1>0, <1>2, SignInTurns
  <2>2. Aside({"verifyEmail"})
    BY AsideMembers DEF Aside, Elsewhere
  <2>3. GoesAside({"lock challenge", "done"})
    BY AsideMembers DEF GoesAside
  <2>4. "insert message" \notin {"lock challenge", "done"}
    OBVIOUS
  <2> QED BY <2>1, <2>2, <2>3, <2>4, LookTurn
<1>3. ASSUME LockChallenge(r) PROVE ShowInv'
  <2>1. Turn(r, {"lock challenge"}, {"resolve user", "done"}) /\ db' = db
    BY <1>0, <1>3, SignInTurns
  <2>2. Aside({"lock challenge"})
    BY AsideMembers DEF Aside, Elsewhere
  <2>3. GoesAside({"resolve user", "done"})
    BY AsideMembers DEF GoesAside
  <2>4. "insert message" \notin {"resolve user", "done"}
    OBVIOUS
  <2> QED BY <2>1, <2>2, <2>3, <2>4, LookTurn
<1>4. ASSUME ResolveUserByEmail(r) PROVE ShowInv'
  <2>1. Turn(r, {"resolve user"}, {"sign in"}) /\ db' = db
    BY <1>0, <1>4, SignInTurns
  <2>2. Aside({"resolve user"})
    BY AsideMembers DEF Aside, Elsewhere
  <2>3. GoesAside({"sign in"})
    BY AsideMembers DEF GoesAside
  <2>4. "insert message" \notin {"sign in"}
    OBVIOUS
  <2> QED BY <2>1, <2>2, <2>3, <2>4, LookTurn
<1>5. ASSUME OAuthCallback(r) PROVE ShowInv'
  <2>1. Turn(r, {"callback"}, {"exchange", "done"}) /\ db' = db
    BY <1>0, <1>5, SignInTurns
  <2>2. Aside({"callback"})
    BY AsideMembers DEF Aside, Elsewhere
  <2>3. GoesAside({"exchange", "done"})
    BY AsideMembers DEF GoesAside
  <2>4. "insert message" \notin {"exchange", "done"}
    OBVIOUS
  <2> QED BY <2>1, <2>2, <2>3, <2>4, LookTurn
<1>6. ASSUME Exchange(r) PROVE ShowInv'
  <2>1. Turn(r, {"exchange"}, {"delete state", "done"}) /\ db' = db
    BY <1>0, <1>6, SignInTurns
  <2>2. Aside({"exchange"})
    BY AsideMembers DEF Aside, Elsewhere
  <2>3. GoesAside({"delete state", "done"})
    BY AsideMembers DEF GoesAside
  <2>4. "insert message" \notin {"delete state", "done"}
    OBVIOUS
  <2> QED BY <2>1, <2>2, <2>3, <2>4, LookTurn
<1>7. ASSUME DeleteState(r) PROVE ShowInv'
  <2>1. Turn(r, {"delete state"}, {"find account", "done"}) /\ db' = db
    BY <1>0, <1>7, SignInTurns
  <2>2. Aside({"delete state"})
    BY AsideMembers DEF Aside, Elsewhere
  <2>3. GoesAside({"find account", "done"})
    BY AsideMembers DEF GoesAside
  <2>4. "insert message" \notin {"find account", "done"}
    OBVIOUS
  <2> QED BY <2>1, <2>2, <2>3, <2>4, LookTurn
<1>8. ASSUME FindAccount(r) PROVE ShowInv'
  <2>1. Turn(r, {"find account"}, {"account's email", "enter"}) /\ db' = db
    BY <1>0, <1>8, SignInTurns
  <2>2. Aside({"find account"})
    BY AsideMembers DEF Aside, Elsewhere
  <2>3. GoesAside({"account's email", "enter"})
    BY AsideMembers DEF GoesAside
  <2>4. "insert message" \notin {"account's email", "enter"}
    OBVIOUS
  <2> QED BY <2>1, <2>2, <2>3, <2>4, LookTurn
<1>9. ASSUME FindUserOfAccount(r) PROVE ShowInv'
  <2>1. Turn(r, {"account's email"}, {"enter"}) /\ db' = db
    BY <1>0, <1>9, SignInTurns
  <2>2. Aside({"account's email"})
    BY AsideMembers DEF Aside, Elsewhere
  <2>3. GoesAside({"enter"})
    BY AsideMembers DEF GoesAside
  <2>4. "insert message" \notin {"enter"}
    OBVIOUS
  <2> QED BY <2>1, <2>2, <2>3, <2>4, LookTurn
<1>10. ASSUME FindKey(r) PROVE ShowInv'
  <2>1. Turn(r, {"deleteKey"}, {"revoke key", "done"}) /\ db' = db
    BY <1>0, <1>10, AccountTurns
  <2>2. Aside({"deleteKey"})
    BY AsideMembers DEF Aside, Elsewhere
  <2>3. GoesAside({"revoke key", "done"})
    BY AsideMembers DEF GoesAside
  <2>4. "insert message" \notin {"revoke key", "done"}
    OBVIOUS
  <2> QED BY <2>1, <2>2, <2>3, <2>4, LookTurn
<1>11. ASSUME LoadAgent(r) PROVE ShowInv'
  <2>1. Turn(r, AgentOp, {"update agent", "select token", "revoke token", "done"}) /\ db' = db
    BY <1>0, <1>11, AccountTurns
  <2>2. Aside(AgentOp)
    BY AsideMembers DEF Aside, Elsewhere, AgentOp
  <2>3. GoesAside({"update agent", "select token", "revoke token", "done"})
    BY AsideMembers DEF GoesAside
  <2>4. "insert message" \notin {"update agent", "select token", "revoke token", "done"}
    OBVIOUS
  <2> QED BY <2>1, <2>2, <2>3, <2>4, LookTurn
<1>12. ASSUME SelectToken(r) PROVE ShowInv'
  <2>1. Turn(r, {"select token"}, {"lock token", "done"}) /\ db' = db
    BY <1>0, <1>12, AccountTurns
  <2>2. Aside({"select token"})
    BY AsideMembers DEF Aside, Elsewhere
  <2>3. GoesAside({"lock token", "done"})
    BY AsideMembers DEF GoesAside
  <2>4. "insert message" \notin {"lock token", "done"}
    OBVIOUS
  <2> QED BY <2>1, <2>2, <2>3, <2>4, LookTurn
<1>13. ASSUME RevokeToken(r) PROVE ShowInv'
  <2>1. Turn(r, {"revoke token"}, {"lock old token", "done"}) /\ db' = db
    BY <1>0, <1>13, AccountTurns
  <2>2. Aside({"revoke token"})
    BY AsideMembers DEF Aside, Elsewhere
  <2>3. GoesAside({"lock old token", "done"})
    BY AsideMembers DEF GoesAside
  <2>4. "insert message" \notin {"lock old token", "done"}
    OBVIOUS
  <2> QED BY <2>1, <2>2, <2>3, <2>4, LookTurn
<1>14. ASSUME GetOrCreateAgentKey(r) PROVE ShowInv'
  <2>1. Turn(r, {"lock token"}, {"new token", "done"}) /\ db' = db
    BY <1>0, <1>14, AccountTurns
  <2>2. Aside({"lock token"})
    BY AsideMembers DEF Aside, Elsewhere
  <2>3. GoesAside({"new token", "done"})
    BY AsideMembers DEF GoesAside
  <2>4. "insert message" \notin {"new token", "done"}
    OBVIOUS
  <2> QED BY <2>1, <2>2, <2>3, <2>4, LookTurn
<1>15. ASSUME RotateAgentKey(r) PROVE ShowInv'
  <2>1. Turn(r, {"lock old token"}, {"new token", "done"}) /\ db' = db
    BY <1>0, <1>15, AccountTurns
  <2>2. Aside({"lock old token"})
    BY AsideMembers DEF Aside, Elsewhere
  <2>3. GoesAside({"new token", "done"})
    BY AsideMembers DEF GoesAside
  <2>4. "insert message" \notin {"new token", "done"}
    OBVIOUS
  <2> QED BY <2>1, <2>2, <2>3, <2>4, LookTurn
<1>16. ASSUME LoadConversation(r) PROVE ShowInv'
  <2>1. Turn(r, {"patchRoom"}, {"update room", "done"}) /\ db' = db
    BY <1>0, <1>16, MessageTurns
  <2>2. Aside({"patchRoom"})
    BY AsideMembers DEF Aside, Elsewhere
  <2>3. GoesAside({"update room", "done"})
    BY AsideMembers DEF GoesAside
  <2>4. "insert message" \notin {"update room", "done"}
    OBVIOUS
  <2> QED BY <2>1, <2>2, <2>3, <2>4, LookTurn
<1>17. ASSUME CheckRead(r) PROVE ShowInv'
  <2>1. Turn(r, {"putRead"}, {"mark read", "done"}) /\ db' = db
    BY <1>0, <1>17, MessageTurns
  <2>2. Aside({"putRead"})
    BY AsideMembers DEF Aside, Elsewhere
  <2>3. GoesAside({"mark read", "done"})
    BY AsideMembers DEF GoesAside
  <2>4. "insert message" \notin {"mark read", "done"}
    OBVIOUS
  <2> QED BY <2>1, <2>2, <2>3, <2>4, LookTurn
<1>18. ASSUME CheckSubscription(r) PROVE ShowInv'
  <2>1. Turn(r, {"createSub"}, {"insert sub", "done"}) /\ db' = db
    BY <1>0, <1>18, ReadTurns
  <2>2. Aside({"createSub"})
    BY AsideMembers DEF Aside, Elsewhere
  <2>3. GoesAside({"insert sub", "done"})
    BY AsideMembers DEF GoesAside
  <2>4. "insert message" \notin {"insert sub", "done"}
    OBVIOUS
  <2> QED BY <2>1, <2>2, <2>3, <2>4, LookTurn
<1>19. ASSUME SelectSubscription(r) PROVE ShowInv'
  <2>1. Turn(r, {"patchSub", "deleteSub"}, {"check sub", "done"}) /\ db' = db
    BY <1>0, <1>19, ReadTurns
  <2>2. Aside({"patchSub", "deleteSub"})
    BY AsideMembers DEF Aside, Elsewhere
  <2>3. GoesAside({"check sub", "done"})
    BY AsideMembers DEF GoesAside
  <2>4. "insert message" \notin {"check sub", "done"}
    OBVIOUS
  <2> QED BY <2>1, <2>2, <2>3, <2>4, LookTurn
<1>20. ASSUME CheckSubscriptionKey(r) PROVE ShowInv'
  <2>1. Turn(r, {"check sub"}, {"write sub"}) /\ db' = db
    BY <1>0, <1>20, ReadTurns
  <2>2. Aside({"check sub"})
    BY AsideMembers DEF Aside, Elsewhere
  <2>3. GoesAside({"write sub"})
    BY AsideMembers DEF GoesAside
  <2>4. "insert message" \notin {"write sub"}
    OBVIOUS
  <2> QED BY <2>1, <2>2, <2>3, <2>4, LookTurn
<1>21. ASSUME RefuseSubscriptionKey(r) PROVE ShowInv'
  <2>1. Turn(r, {"check sub"}, {"done"}) /\ db' = db
    <3>1. Turn(r, {"check sub"}, {"done"})
      BY <1>0, <1>21, ReadTurns
    <3>2. db' = db
      BY <1>21 DEF RefuseSubscriptionKey, Refuse
    <3> QED BY <3>1, <3>2
  <2>2. Aside({"check sub"})
    BY AsideMembers DEF Aside, Elsewhere
  <2>3. GoesAside({"done"})
    BY AsideMembers DEF GoesAside
  <2>4. "insert message" \notin {"done"}
    OBVIOUS
  <2> QED BY <2>1, <2>2, <2>3, <2>4, LookTurn
<1> QED BY <1>1, <1>2, <1>3, <1>4, <1>5, <1>6, <1>7, <1>8, <1>9, <1>10, <1>11, <1>12, <1>13, <1>14, <1>15, <1>16, <1>17, <1>18, <1>19, <1>20, <1>21

\* The writes of a sign-in and of a new agent.
LEMMA SignInUnshown ==
  ASSUME NEW d, DOMAIN d = TableNames, NEW r, NEW found, NEW email, NEW by, SignIn(r, d, found, email, by)
  PROVE  Fails(r) \/ Unshown(d, db')
<1>1. ASSUME NEW e, DOMAIN e = TableNames, NEW u, Commit(r, CreateAuthSession(e, r, u, by))
      PROVE  Unshown(e, db')
  <2>1. PICK row : row = [user |-> u, live |-> TRUE, by |-> by]
    OBVIOUS
  <2>2. db' = Add(e, "session", r, row)
    BY <1>1, <2>1, Zenon DEF Commit, CreateAuthSession
  <2>3. "session" \in TableNames \ {"room", "message", "event", "told", "clock"}
    BY DEF TableNames
  <2> QED BY <1>1, <2>2, <2>3, UnshownAdd
<1>2. CASE found # {}
  <2>1. PICK u \in found : Commit(r, CreateAuthSession(d, r, u, by))
    BY <1>2 DEF SignIn
  <2> QED BY <1>1, <2>1
<1>3. CASE found = {} /\ ~UserClash(db, r, email, Handle(r, email))
  <2>1. PICK e : e = InsertUserWithProfile(d, r, email)
    OBVIOUS
  <2>2. Commit(r, CreateAuthSession(e, r, r, by))
    BY <1>3, <2>1 DEF SignIn
  <2>3. PICK address, handle : address = (IF email = None THEN r ELSE email) /\ handle = Handle(r, email)
    OBVIOUS
  <2>4. PICK row : row = [kind |-> "human", status |-> "active", email |-> address, handle |-> handle, bio |-> "none"]
    OBVIOUS
  <2>5. PICK x : x = Add(d, "user", r, row)
    OBVIOUS
  <2>6. CreateUser(d, r, "human", address, handle)
          = Add(d, "user", r, [kind |-> "human", status |-> "active", email |-> address, handle |-> handle, bio |-> "none"])
    BY Zenon DEF CreateUser
  <2>7. CreateUser(d, r, "human", address, handle) = x
    BY <2>4, <2>5, <2>6, Zenon
  <2>8. e = InsertInternalEvent(CreateUser(d, r, "human", address, handle), r, "user", r, None)
    BY <2>1, <2>3, Zenon DEF InsertUserWithProfile
  <2>9. e = InsertInternalEvent(x, r, "user", r, None)
    BY <2>7, <2>8, Zenon
  <2>10. Unshown(d, x)
    <3>1. "user" \in TableNames \ {"room", "message", "event", "told", "clock"}
      BY DEF TableNames
    <3> QED BY <2>5, <3>1, UnshownAdd
  <2>11. Unshown(x, e)
    BY <2>9, <2>10, UnshownTold DEF Unshown
  <2>12. Unshown(e, db')
    BY <1>1, <2>2, <2>11 DEF Unshown
  <2> QED BY <2>10, <2>11, <2>12, UnshownTwice
<1>4. CASE found = {} /\ UserClash(db, r, email, Handle(r, email))
  BY <1>4 DEF SignIn
<1> QED BY <1>2, <1>3, <1>4

LEMMA AgentUnshown ==
  ASSUME DOMAIN db = TableNames, NEW r, NEW handle, db' = InsertAgent(db, r, handle)
  PROVE  Unshown(db, db')
<1>1. PICK w : w = Do(r).space
  OBVIOUS
<1>2. PICK owner, mode : owner = (IF w = None THEN Caller(r).user ELSE None) /\ mode = Do(r).mode
  OBVIOUS
<1>3. PICK user, agent, token, member :
        /\ user = [kind |-> "agent", status |-> "active", email |-> None, handle |-> handle, bio |-> "none"]
        /\ agent = [owner |-> owner, space |-> w, mode |-> mode]
        /\ token = [agent |-> r, live |-> TRUE, blank |-> FALSE] /\ member = <<w, r>>
  OBVIOUS
<1>4. PICK d1 : d1 = Add(db, "user", r, user)
  OBVIOUS
<1>5. PICK d2 : d2 = Add(d1, "agent", r, agent)
  OBVIOUS
<1>6. PICK d3 : d3 = IF w = None THEN d2 ELSE Add(d2, "member", member, "member")
  OBVIOUS
<1>7. PICK d4 : d4 = Add(d3, "token", r, token)
  OBVIOUS
<1>8. db' = InsertInternalEvent(d4, r, "user", r, w)
  <2>1. d1 = CreateUser(db, r, "agent", None, handle)
    BY <1>3, <1>4 DEF CreateUser
  <2>2. d2 = CreateAgent(d1, r, owner, w, mode)
    BY <1>3, <1>5 DEF CreateAgent
  <2>3. d3 = IF w = None THEN d2 ELSE CreateWorkspaceMembership(d2, w, r, "member")
    BY <1>3, <1>6 DEF CreateWorkspaceMembership
  <2>4. d4 = CreateAgentAPIKey(d3, r, r)
    BY <1>3, <1>7 DEF CreateAgentAPIKey
  <2> QED BY <1>1, <1>2, <2>1, <2>2, <2>3, <2>4, Zenon DEF InsertAgent
<1>9. {"user", "agent", "member", "token"} \subseteq TableNames \ {"room", "message", "event", "told", "clock"}
  BY DEF TableNames
<1>10. Unshown(db, d1)
  BY <1>4, <1>9, UnshownAdd
<1>11. Unshown(d1, d2)
  BY <1>5, <1>9, <1>10, UnshownAdd DEF Unshown
<1>12. d3 = d2 \/ Unshown(d2, d3)
  BY <1>6, <1>9, <1>11, UnshownAdd DEF Unshown
<1>13. Unshown(db, d3)
  BY <1>10, <1>11, <1>12, UnshownTwice
<1>14. Unshown(d3, d4)
  BY <1>7, <1>9, <1>13, UnshownAdd DEF Unshown
<1>15. Unshown(d4, db')
  BY <1>8, <1>14, UnshownTold DEF Unshown
<1> QED BY <1>13, <1>14, <1>15, UnshownTwice

\* The writes of what is not shown.
LEMMA AsideWritesShow ==
  ASSUME Inv, ShowInv, NEW r \in Request, index' = index
  PROVE  /\ StartEmailLogin(r) => ShowInv'
         /\ VerifyEmail(r) => ShowInv'
         /\ OAuthStart(r) => ShowInv'
         /\ EnterWithAccount(r) => ShowInv'
         /\ DeleteCurrentSession(r) => ShowInv'
         /\ PatchMeProfile(r) => ShowInv'
         /\ CreateKey(r) => ShowInv'
         /\ DeleteKey(r) => ShowInv'
         /\ PostAgent(r) => ShowInv'
         /\ PatchAgent(r) => ShowInv'
         /\ NewToken(r) => ShowInv'
         /\ PutReadState(r) => ShowInv'
         /\ PatchWorkspace(r) => ShowInv'
         /\ CreateSubscription(r) => ShowInv'
         /\ PatchSubscription(r) => ShowInv'
         /\ DeleteSubscription(r) => ShowInv'
<1>0. RequestShape(r) /\ IsTables(db) /\ DOMAIN db = TableNames
  BY ShapeOK DEF Inv, IsTables
<1>a. Refuse(r) \/ Fails(r) => Unshown(db, db')
  BY <1>0 DEF Refuse, Fails, Unshown
<1>1. ASSUME StartEmailLogin(r) PROVE ShowInv'
  <2>1. Turn(r, {"startEmail"}, {"send code"})
    BY <1>0, <1>1, SignInTurns
  <2>2. Aside({"startEmail"})
    BY AsideMembers DEF Aside, Elsewhere
  <2>3. GoesAside({"send code"})
    BY AsideMembers DEF GoesAside
  <2>4. "insert message" \notin {"send code"}
    OBVIOUS
  <2>5. Unshown(db, db')
    <3>1. PICK email : email = Do(r).email
      OBVIOUS
    <3>2. PICK code : db' = CreateEmailLoginChallenge(db, r, email, code)
      BY <1>1, <3>1 DEF StartEmailLogin
    <3>3. PICK row : db' = Add(db, "challenge", r, row)
      BY <3>2, CreatedChallenge
    <3>4. "challenge" \in TableNames \ {"room", "message", "event", "told", "clock"}
      BY DEF TableNames
    <3> QED BY <1>0, <3>3, <3>4, UnshownAdd
  <2> QED BY <2>1, <2>2, <2>3, <2>4, <2>5, UnshownTurn
<1>2. ASSUME VerifyEmail(r) PROVE ShowInv'
  <2>1. Turn(r, {"sign in"}, {"done"})
    BY <1>0, <1>2, SignInTurns
  <2>2. Aside({"sign in"})
    BY AsideMembers DEF Aside, Elsewhere
  <2>3. GoesAside({"done"})
    BY AsideMembers DEF GoesAside
  <2>4. "insert message" \notin {"done"}
    OBVIOUS
  <2>5. Unshown(db, db')
    <3>1. PICK c : c = Got(r).challenge
      OBVIOUS
    <3>2. PICK d : d = ConsumeEmailLoginChallenge(db, c)
      OBVIOUS
    <3>3. PICK found, email, by : SignIn(r, d, found, email, by)
      BY <1>2, <3>1, <3>2 DEF VerifyEmail
    <3>4. Only(db, d, {"challenge"})
      BY <1>0, <3>2 DEF ConsumeEmailLoginChallenge, Only, TableNames
    <3>5. Unshown(db, d)
      BY <3>4, UnshownOnly
    <3>6. Fails(r) \/ Unshown(d, db')
      BY <3>3, <3>5, SignInUnshown DEF Unshown
    <3> QED BY <1>a, <3>5, <3>6, UnshownTwice
  <2> QED BY <2>1, <2>2, <2>3, <2>4, <2>5, UnshownTurn
<1>3. ASSUME OAuthStart(r) PROVE ShowInv'
  <2>1. Turn(r, {"startOAuth"}, {"done"})
    BY <1>0, <1>3, SignInTurns
  <2>2. Aside({"startOAuth"})
    BY AsideMembers DEF Aside, Elsewhere
  <2>3. GoesAside({"done"})
    BY AsideMembers DEF GoesAside
  <2>4. "insert message" \notin {"done"}
    OBVIOUS
  <2>5. Unshown(db, db')
    <3>1. db' = [db EXCEPT !.state = @ \cup {r}]
      BY <1>3 DEF OAuthStart, Commit, CreateOAuthState
    <3>2. Only(db, db', {"state"})
      BY <1>0, <3>1 DEF Only, TableNames
    <3> QED BY <3>2, UnshownOnly
  <2> QED BY <2>1, <2>2, <2>3, <2>4, <2>5, UnshownTurn
<1>4. ASSUME EnterWithAccount(r) PROVE ShowInv'
  <2>1. Turn(r, {"enter"}, {"done"})
    BY <1>0, <1>4, SignInTurns
  <2>2. Aside({"enter"})
    BY AsideMembers DEF Aside, Elsewhere
  <2>3. GoesAside({"done"})
    BY AsideMembers DEF GoesAside
  <2>4. "insert message" \notin {"done"}
    OBVIOUS
  <2>5. Unshown(db, db')
    <3>1. PICK d : d = ResolveOrCreateOAuthUser(r, DeleteOAuthState(db, Do(r).state))
      OBVIOUS
    <3>2. PICK found, email, by : SignIn(r, d, found, email, by)
      BY <1>4, <3>1 DEF EnterWithAccount
    <3>3. Only(db, d, {"challenge", "state", "account"})
      BY <1>0, <3>1, AccountTaken
    <3>4. Unshown(db, d)
      BY <3>3, UnshownOnly
    <3>5. Fails(r) \/ Unshown(d, db')
      BY <3>2, <3>4, SignInUnshown DEF Unshown
    <3> QED BY <1>a, <3>4, <3>5, UnshownTwice
  <2> QED BY <2>1, <2>2, <2>3, <2>4, <2>5, UnshownTurn
<1>5. ASSUME DeleteCurrentSession(r) PROVE ShowInv'
  <2>1. Turn(r, {"deleteSession"}, {"done"})
    BY <1>0, <1>5, AccountTurns
  <2>2. Aside({"deleteSession"})
    BY AsideMembers DEF Aside, Elsewhere
  <2>3. GoesAside({"done"})
    BY AsideMembers DEF GoesAside
  <2>4. "insert message" \notin {"done"}
    OBVIOUS
  <2>5. Unshown(db, db')
    <3>1. PICK s : s = Caller(r).session
      OBVIOUS
    <3>2. Refuse(r) \/ db' = [db EXCEPT !.session[s].live = FALSE]
      BY <1>5, <3>1 DEF DeleteCurrentSession, Commit, RevokeAuthSession
    <3>3. Refuse(r) \/ Only(db, db', {"session"})
      BY <1>0, <3>2 DEF Only, TableNames
    <3> QED BY <1>a, <3>3, UnshownOnly
  <2> QED BY <2>1, <2>2, <2>3, <2>4, <2>5, UnshownTurn
<1>6. ASSUME PatchMeProfile(r) PROVE ShowInv'
  <2>1. Turn(r, {"patchMe"}, {"done"})
    BY <1>0, <1>6, AccountTurns
  <2>2. Aside({"patchMe"})
    BY AsideMembers DEF Aside, Elsewhere
  <2>3. GoesAside({"done"})
    BY AsideMembers DEF GoesAside
  <2>4. "insert message" \notin {"done"}
    OBVIOUS
  <2>5. Unshown(db, db')
    <3>1. PICK u, handle, bio : u = Caller(r).user /\ handle = Do(r).handle /\ bio = Do(r).bio
      OBVIOUS
    <3>2. PICK d : d = UpdateUserProfile(db, u, handle, bio)
      OBVIOUS
    <3>3. Refuse(r) \/ Fails(r) \/ db' = InsertInternalEvent(d, r, "user", u, None)
      BY <1>6, <3>1, <3>2 DEF PatchMeProfile, Commit
    <3>4. Only(db, d, {"user"})
      BY <1>0, <3>2, ProfileRow
    <3>5. Unshown(db, d)
      BY <3>4, UnshownOnly
    <3>6. Refuse(r) \/ Fails(r) \/ Unshown(d, db')
      BY <3>3, <3>5, UnshownTold DEF Unshown
    <3> QED BY <1>a, <3>5, <3>6, UnshownTwice
  <2> QED BY <2>1, <2>2, <2>3, <2>4, <2>5, UnshownTurn
<1>7. ASSUME CreateKey(r) PROVE ShowInv'
  <2>1. Turn(r, {"createKey"}, {"done"})
    BY <1>0, <1>7, AccountTurns
  <2>2. Aside({"createKey"})
    BY AsideMembers DEF Aside, Elsewhere
  <2>3. GoesAside({"done"})
    BY AsideMembers DEF GoesAside
  <2>4. "insert message" \notin {"done"}
    OBVIOUS
  <2>5. Unshown(db, db')
    <3>1. PICK row : row = [user |-> Caller(r).user, space |-> Do(r).space, live |-> TRUE]
      OBVIOUS
    <3>2. Refuse(r) \/ db' = Add(db, "key", r, row)
      BY <1>7, <3>1 DEF CreateKey, Commit, CreateAPIKey
    <3>3. "key" \in TableNames \ {"room", "message", "event", "told", "clock"}
      BY DEF TableNames
    <3> QED BY <1>0, <1>a, <3>2, <3>3, UnshownAdd
  <2> QED BY <2>1, <2>2, <2>3, <2>4, <2>5, UnshownTurn
<1>8. ASSUME DeleteKey(r) PROVE ShowInv'
  <2>1. Turn(r, {"revoke key"}, {"done"})
    BY <1>0, <1>8, AccountTurns
  <2>2. Aside({"revoke key"})
    BY AsideMembers DEF Aside, Elsewhere
  <2>3. GoesAside({"done"})
    BY AsideMembers DEF GoesAside
  <2>4. "insert message" \notin {"done"}
    OBVIOUS
  <2>5. Unshown(db, db')
    <3>1. PICK k : k = Do(r).key
      OBVIOUS
    <3>2. Refuse(r) \/ db' = db \/ db' = [db EXCEPT !.key[k].live = FALSE]
      BY <1>8, <3>1 DEF DeleteKey, Commit, RevokeAPIKeyByOwner
    <3>3. Refuse(r) \/ Only(db, db', {"key"})
      BY <1>0, <3>2 DEF Only, TableNames
    <3> QED BY <1>a, <3>3, UnshownOnly
  <2> QED BY <2>1, <2>2, <2>3, <2>4, <2>5, UnshownTurn
<1>9. ASSUME PostAgent(r) PROVE ShowInv'
  <2>1. Turn(r, {"createAgent"}, {"done"})
    BY <1>0, <1>9, AccountTurns
  <2>2. Aside({"createAgent"})
    BY AsideMembers DEF Aside, Elsewhere
  <2>3. GoesAside({"done"})
    BY AsideMembers DEF GoesAside
  <2>4. "insert message" \notin {"done"}
    OBVIOUS
  <2>5. Unshown(db, db')
    <3>1. PICK handle : Refuse(r) \/ db' = InsertAgent(db, r, handle)
      BY <1>9 DEF PostAgent, Commit
    <3> QED BY <1>0, <1>a, <3>1, AgentUnshown
  <2> QED BY <2>1, <2>2, <2>3, <2>4, <2>5, UnshownTurn
<1>10. ASSUME PatchAgent(r) PROVE ShowInv'
  <2>1. Turn(r, {"update agent"}, {"done"})
    BY <1>0, <1>10, AccountTurns
  <2>2. Aside({"update agent"})
    BY AsideMembers DEF Aside, Elsewhere
  <2>3. GoesAside({"done"})
    BY AsideMembers DEF GoesAside
  <2>4. "insert message" \notin {"done"}
    OBVIOUS
  <2>5. Unshown(db, db')
    <3>1. PICK a, handle, bio, space : /\ a = Do(r).agent /\ bio = Got(r).user.bio /\ space = db.agent[a].space
                                       /\ handle = IF Do(r).handle = None THEN Got(r).user.handle ELSE Do(r).handle
      OBVIOUS
    <3>2. PICK profile : profile = UpdateUserProfile(db, a, handle, bio)
      OBVIOUS
    <3>3. PICK status : status = IF Do(r).status = None THEN profile ELSE UpdateUserStatus(profile, a, Do(r).status)
      OBVIOUS
    <3>4. PICK d : d = UpdateAgent(status, a, Do(r).mode)
      OBVIOUS
    <3>5. Fails(r) \/ db' = InsertInternalEvent(d, r, "user", a, space)
      BY <1>10, <3>1, <3>2, <3>3, <3>4 DEF PatchAgent, Commit
    <3>6. Only(db, profile, {"user"})
      BY <1>0, <3>2, ProfileRow
    <3>7. Only(profile, status, {"user"})
      BY <3>3, <3>6 DEF UpdateUserStatus, Only, TableNames
    <3>8. Only(status, d, {"agent"})
      BY <3>4, <3>7 DEF UpdateAgent, Only, TableNames
    <3>9. Unshown(db, profile) /\ Unshown(profile, status) /\ Unshown(status, d)
      BY <3>6, <3>7, <3>8, UnshownOnly
    <3>10. Unshown(db, d)
      BY <3>9, UnshownTwice
    <3>11. Fails(r) \/ Unshown(d, db')
      BY <3>5, <3>10, UnshownTold DEF Unshown
    <3> QED BY <1>a, <3>10, <3>11, UnshownTwice
  <2> QED BY <2>1, <2>2, <2>3, <2>4, <2>5, UnshownTurn
<1>11. ASSUME NewToken(r) PROVE ShowInv'
  <2>1. Turn(r, {"new token"}, {"done"})
    BY <1>0, <1>11, AccountTurns
  <2>2. Aside({"new token"})
    BY AsideMembers DEF Aside, Elsewhere
  <2>3. GoesAside({"done"})
    BY AsideMembers DEF GoesAside
  <2>4. "insert message" \notin {"done"}
    OBVIOUS
  <2>5. Unshown(db, db')
    <3>1. PICK old, row : old = Got(r).user /\ row = [agent |-> Do(r).agent, live |-> TRUE, blank |-> FALSE]
      OBVIOUS
    <3>2. PICK d : d = RevokeActiveAgentAPIKey(db, old)
      OBVIOUS
    <3>3. Fails(r) \/ db' = Add(d, "token", r, row)
      BY <1>11, <3>1, <3>2 DEF NewToken, Commit, CreateAgentAPIKey
    <3>4. Only(db, d, {"token"})
      BY <1>0, <3>2, TokensRevoked DEF Revoked
    <3>5. Unshown(db, d)
      BY <3>4, UnshownOnly
    <3>6. "token" \in TableNames \ {"room", "message", "event", "told", "clock"}
      BY DEF TableNames
    <3>7. Fails(r) \/ Unshown(d, db')
      BY <3>3, <3>5, <3>6, UnshownAdd DEF Unshown
    <3> QED BY <1>a, <3>5, <3>7, UnshownTwice
  <2> QED BY <2>1, <2>2, <2>3, <2>4, <2>5, UnshownTurn
<1>12. ASSUME PutReadState(r) PROVE ShowInv'
  <2>1. Turn(r, {"mark read"}, {"done"})
    BY <1>0, <1>12, MessageTurns
  <2>2. Aside({"mark read"})
    BY AsideMembers DEF Aside, Elsewhere
  <2>3. GoesAside({"done"})
    BY AsideMembers DEF GoesAside
  <2>4. "insert message" \notin {"done"}
    OBVIOUS
  <2>5. Unshown(db, db')
    <3>1. PICK id, row : id = <<Do(r).room, Caller(r).user>> /\ row = Do(r).message
      OBVIOUS
    <3>2. db' = Add(db, "read", id, row)
      BY <1>12, <3>1 DEF PutReadState, Commit, UpsertConversationRead
    <3>3. "read" \in TableNames \ {"room", "message", "event", "told", "clock"}
      BY DEF TableNames
    <3> QED BY <1>0, <3>2, <3>3, UnshownAdd
  <2> QED BY <2>1, <2>2, <2>3, <2>4, <2>5, UnshownTurn
<1>13. ASSUME PatchWorkspace(r) PROVE ShowInv'
  <2>1. Turn(r, {"patchWorkspace"}, {"done"})
    BY <1>0, <1>13, MessageTurns
  <2>2. Aside({"patchWorkspace"})
    BY AsideMembers DEF Aside, Elsewhere
  <2>3. GoesAside({"done"})
    BY AsideMembers DEF GoesAside
  <2>4. "insert message" \notin {"done"}
    OBVIOUS
  <2>5. Unshown(db, db')
    <3>1. PICK w, slug : w = Do(r).space /\ slug = Do(r).slug
      OBVIOUS
    <3>2. PICK d : d = UpdateWorkspace(db, w, slug)
      OBVIOUS
    <3>3. Refuse(r) \/ Fails(r) \/ db' = InsertInternalEvent(d, r, "workspace", w, w)
      BY <1>13, <3>1, <3>2 DEF PatchWorkspace, Commit
    <3>4. Only(db, d, {"space"})
      BY <1>0, <3>2 DEF UpdateWorkspace, Only, TableNames
    <3>5. Unshown(db, d)
      BY <3>4, UnshownOnly
    <3>6. Refuse(r) \/ Fails(r) \/ Unshown(d, db')
      BY <3>3, <3>5, UnshownTold DEF Unshown
    <3> QED BY <1>a, <3>5, <3>6, UnshownTwice
  <2> QED BY <2>1, <2>2, <2>3, <2>4, <2>5, UnshownTurn
<1>14. ASSUME CreateSubscription(r) PROVE ShowInv'
  <2>1. Turn(r, {"insert sub"}, {"done"})
    BY <1>0, <1>14, ReadTurns
  <2>2. Aside({"insert sub"})
    BY AsideMembers DEF Aside, Elsewhere
  <2>3. GoesAside({"done"})
    BY AsideMembers DEF GoesAside
  <2>4. "insert message" \notin {"done"}
    OBVIOUS
  <2>5. Unshown(db, db')
    <3>1. PICK row : row = [owner |-> Caller(r).user, space |-> Got(r), about |-> Do(r).about, enabled |-> TRUE]
      OBVIOUS
    <3>2. db' = Add(db, "sub", r, row)
      BY <1>14, <3>1 DEF CreateSubscription, Commit, CreateEventSubscription
    <3>3. "sub" \in TableNames \ {"room", "message", "event", "told", "clock"}
      BY DEF TableNames
    <3> QED BY <1>0, <3>2, <3>3, UnshownAdd
  <2> QED BY <2>1, <2>2, <2>3, <2>4, <2>5, UnshownTurn
<1>15. ASSUME PatchSubscription(r) PROVE ShowInv'
  <2>1. Turn(r, {"write sub"}, {"done"})
    BY <1>0, <1>15, ReadTurns
  <2>2. Aside({"write sub"})
    BY AsideMembers DEF Aside, Elsewhere
  <2>3. GoesAside({"done"})
    BY AsideMembers DEF GoesAside
  <2>4. "insert message" \notin {"done"}
    OBVIOUS
  <2>5. Unshown(db, db')
    <3>1. PICK s, enabled : s = Do(r).sub /\ enabled = Do(r).enabled
      OBVIOUS
    <3>2. db' = [db EXCEPT !.sub[s].enabled = enabled]
      BY <1>15, <3>1 DEF PatchSubscription, Commit, UpdateEventSubscriptionEnabled
    <3>3. Only(db, db', {"sub"})
      BY <1>0, <3>2 DEF Only, TableNames
    <3> QED BY <3>3, UnshownOnly
  <2> QED BY <2>1, <2>2, <2>3, <2>4, <2>5, UnshownTurn
<1>16. ASSUME DeleteSubscription(r) PROVE ShowInv'
  <2>1. Turn(r, {"write sub"}, {"done"})
    BY <1>0, <1>16, ReadTurns
  <2>2. Aside({"write sub"})
    BY AsideMembers DEF Aside, Elsewhere
  <2>3. GoesAside({"done"})
    BY AsideMembers DEF GoesAside
  <2>4. "insert message" \notin {"done"}
    OBVIOUS
  <2>5. Unshown(db, db')
    <3>1. PICK s : s = Do(r).sub
      OBVIOUS
    <3>2. db' = [db EXCEPT !.sub = [x \in DOMAIN db.sub \ {s} |-> db.sub[x]]]
      BY <1>16, <3>1 DEF DeleteSubscription, Commit, DeleteEventSubscription
    <3>3. Only(db, db', {"sub"})
      BY <1>0, <3>2 DEF Only, TableNames
    <3> QED BY <3>3, UnshownOnly
  <2> QED BY <2>1, <2>2, <2>3, <2>4, <2>5, UnshownTurn
<1> QED BY <1>1, <1>2, <1>3, <1>4, <1>5, <1>6, <1>7, <1>8, <1>9, <1>10, <1>11, <1>12, <1>13, <1>14, <1>15, <1>16

\* The writes to conversations and messages.
LEMMA NoisyTurn ==
  ASSUME Inv, ShowInv, NEW r \in Request, NEW from, NEW to, Turn(r, from, to),
         Aside(from), GoesAside(to), Stays, EventsFit(db'), TimesOK', index' = index
  PROVE  ShowInv'
<1>1. RequestShows(r)'
  BY AsideTurn
<1>2. req' = [req EXCEPT ![r] = req'[r]]
  BY DEF Turn
<1> QED BY <1>1, <1>2, ShowStep

LEMMA TellsFit ==
  ASSUME Stays, EventsFit(db), db'.event = db.event, NEW c, NEW space, TellsOf(db, db', c, space),
         c \in DOMAIN db'.room, db'.room[c].space = space
  PROVE  EventsFit(db')
<1>1. \A i : i.kind \in {"user", "workspace"} \/ (i.kind = "conversation" /\ i.id = c /\ i.space = space)
               => Fits(i, db')
  BY DEF Fits
<1>2. \A i \in db'.told : i \in db.told \/ Fits(i, db')
  BY <1>1 DEF TellsOf
<1> QED BY <1>2, EventsStay

LEMMA ToldRoom ==
  ASSUME NEW d, DOMAIN d = TableNames, d.told = db.told, NEW r, NEW c, NEW space,
         db' = InsertInternalEvent(d, r, "conversation", c, space)
  PROVE  TellsOf(db, db', c, space)
BY ToldOf

\* A message is edited or deleted.
LEMMA RewrittenShow ==
  ASSUME Inv, ShowInv, NEW r \in Request, index' = index, NEW from, Turn(r, from, {"done"}),
         from = {"edit"} \/ from = {"delete"},
         NEW m, NEW d, NEW e, d = [db EXCEPT !.message = [db.message EXCEPT ![m] = e]],
         e = [db.message[m] EXCEPT !.body = "edited"] \/ e = [db.message[m] EXCEPT !.deleted = TRUE],
         NEW c, c = Got(r), NEW space, space = db.room[c].space,
         db' = InsertInternalEvent(d, r, "conversation", c, space)
  PROVE  ShowInv'
<1>1. IsTables(db)
  BY DEF Inv
<1>2. /\ Only(db, db', {"message", "told"}) /\ DOMAIN db'.message = DOMAIN db.message
      /\ \A x \in DOMAIN db.message :
           db'.message[x].room = db.message[x].room /\ db'.message[x].at = db.message[x].at
      /\ d.told = db.told /\ DOMAIN d = TableNames
  BY <1>1, MessageRewritten
<1>3. db'.room = db.room /\ db'.event = db.event /\ db'.clock = db.clock
  BY <1>2 DEF Only, TableNames
<1>4. Stays
  BY <1>2, <1>3 DEF Stays
<1>5. c \in DOMAIN db.room
  <2>1. req[r].pc \in {"edit", "delete"}
    BY DEF Turn
  <2>2. KeyScoped(r)
    BY DEF ShowInv, RequestShows
  <2> QED BY <2>1, <2>2 DEF KeyScoped
<1>6. TellsOf(db, db', c, space)
  <2>1. d.told = db.told /\ DOMAIN d = TableNames
    BY <1>2
  <2> QED BY <2>1, ToldRoom, Zenon
<1>7. EventsFit(db')
  BY <1>3, <1>4, <1>5, <1>6, TellsFit DEF ShowInv
<1>8. Aside(from) /\ GoesAside({"done"})
  BY DEF Aside, GoesAside, Elsewhere
<1>9. req' = [req EXCEPT ![r] = req'[r]] /\ req'[r].pc # "insert message"
  BY DEF Turn
<1>10. TimesOK'
  BY <1>2, <1>3, <1>4, <1>9, TimesStay DEF ShowInv
<1> QED BY <1>4, <1>7, <1>8, <1>10, NoisyTurn

LEMMA RewritersShow ==
  ASSUME Inv, ShowInv, NEW r \in Request, index' = index
  PROVE  /\ PatchConversation(r) => ShowInv'
         /\ PatchMessage(r) => ShowInv'
         /\ DeleteMessage(r) => ShowInv'
<1>0. RequestShape(r) /\ IsTables(db)
  BY ShapeOK DEF Inv
<1>1. ASSUME PatchConversation(r) PROVE ShowInv'
  <2>1. Turn(r, {"update room"}, {"done"})
    BY <1>0, <1>1, MessageTurns
  <2>2. PICK c : c = Do(r).room
    OBVIOUS
  <2>3. c \in DOMAIN db.room
    BY <2>1, <2>2 DEF Inv, StepOK, RoomOK, Turn
  <2>4. /\ Only(db, db', {"room", "told"}) /\ DOMAIN db'.room = DOMAIN db.room
        /\ \A x \in DOMAIN db.room :
             db'.room[x].space = db.room[x].space /\ db'.room[x].policy = db.room[x].policy
        /\ TellsOf(db, db', c, db.room[c].space)
    BY <1>0, <1>1, <2>2, PatchRoomWrites
  <2>5. db'.message = db.message /\ db'.event = db.event /\ db'.clock = db.clock
    BY <2>4 DEF Only, TableNames
  <2>6. Stays
    BY <2>4, <2>5 DEF Stays
  <2>7. EventsFit(db')
    BY <2>3, <2>4, <2>5, <2>6, TellsFit DEF ShowInv
  <2>8. Aside({"update room"}) /\ GoesAside({"done"})
    BY AsideMembers DEF Aside, GoesAside, Elsewhere
  <2>9. req' = [req EXCEPT ![r] = req'[r]] /\ req'[r].pc # "insert message"
    BY <2>1 DEF Turn
  <2>10. TimesOK'
    BY <2>5, <2>6, <2>9, TimesStay DEF ShowInv
  <2> QED BY <2>1, <2>6, <2>7, <2>8, <2>10, NoisyTurn
<1>2. ASSUME PatchMessage(r) PROVE ShowInv'
  <2>1. Turn(r, {"edit"}, {"done"})
    BY <1>0, <1>2, MessageTurns
  <2>2. PICK m, c : m = Do(r).message /\ c = Got(r)
    OBVIOUS
  <2>3. PICK space : space = db.room[c].space
    OBVIOUS
  <2>4. PICK d : d = UpdateMessageContent(db, m)
    OBVIOUS
  <2>5. db' = InsertInternalEvent(d, r, "conversation", c, space)
    BY <1>2, <2>2, <2>3, <2>4 DEF PatchMessage, Commit
  <2>6. PICK e : e = [db.message[m] EXCEPT !.body = "edited"]
    OBVIOUS
  <2>7. d = [db EXCEPT !.message = [db.message EXCEPT ![m] = e]]
    BY <1>0, <2>4, <2>6 DEF UpdateMessageContent, IsTables, TableNames
  <2> QED BY <2>1, <2>2, <2>3, <2>5, <2>6, <2>7, RewrittenShow
<1>3. ASSUME DeleteMessage(r) PROVE ShowInv'
  <2>1. Turn(r, {"delete"}, {"done"})
    BY <1>0, <1>3, MessageTurns
  <2>2. PICK m, c : m = Do(r).message /\ c = Got(r)
    OBVIOUS
  <2>3. PICK space : space = db.room[c].space
    OBVIOUS
  <2>4. PICK d : d = SoftDeleteMessage(db, m)
    OBVIOUS
  <2>5. db' = InsertInternalEvent(d, r, "conversation", c, space)
    BY <1>3, <2>2, <2>3, <2>4 DEF DeleteMessage, Commit
  <2>6. PICK e : e = [db.message[m] EXCEPT !.deleted = TRUE]
    OBVIOUS
  <2>7. d = [db EXCEPT !.message = [db.message EXCEPT ![m] = e]]
    BY <1>0, <2>4, <2>6 DEF SoftDeleteMessage, IsTables, TableNames
  <2> QED BY <2>1, <2>2, <2>3, <2>5, <2>6, <2>7, RewrittenShow
<1> QED BY <1>1, <1>2, <1>3

\* The time that is drawn for a message is later than all there is.
LEMMA CheckPostShows ==
  ASSUME Inv, ShowInv, NEW r \in Request, index' = index, CheckPost(r)
  PROVE  ShowInv'
<1>0. RequestShape(r) /\ IsTables(db)
  BY ShapeOK DEF Inv
<1>1. Turn(r, {"post"}, {"insert message", "done"})
  BY <1>0, MessageTurns
<1>2. Aside({"post"}) /\ GoesAside({"insert message", "done"})
  BY AsideMembers DEF Aside, GoesAside
<1>3. CASE Refuse(r)
  <2>1. Unshown(db, db')
    BY <1>0, <1>3 DEF Refuse, Unshown, IsTables
  <2>2. req' = [req EXCEPT ![r] = [req[r] EXCEPT !.pc = "done", !.answer = "refused", !.tx = FALSE, !.locks = {}]]
    BY <1>3 DEF Refuse, Answer, Becomes
  <2>3. req'[r].pc = "done"
    BY <1>0, <2>2 DEF RequestShape, Fields
  <2>4. Stays /\ EventsFit(db') /\ db'.clock = db.clock /\ DOMAIN db'.message = DOMAIN db.message
    BY <2>1, UnshownQuiet, QuietStays, QuietEvents DEF ShowInv, Quiet
  <2>5. req' = [req EXCEPT ![r] = req'[r]]
    BY <1>1 DEF Turn
  <2>6. TimesOK'
    BY <2>3, <2>4, <2>5, TimesStay DEF ShowInv
  <2> QED BY <1>1, <1>2, <2>4, <2>6, NoisyTurn
<1>4. CASE ~Refuse(r)
  <2>1. /\ db' = [db EXCEPT !.clock = db.clock + 1]
        /\ req' = [req EXCEPT ![r] = [req[r] EXCEPT !.got = db.clock + 1, !.pc = "insert message"]]
    BY <1>4 DEF CheckPost, Becomes
  <2>2. Only(db, db', {"clock"}) /\ db'.clock = db.clock + 1
    BY <1>0, <2>1 DEF Only, IsTables, TableNames
  <2>3. db'.room = db.room /\ db'.message = db.message /\ db'.event = db.event /\ db'.told = db.told
    BY <2>2 DEF Only, TableNames
  <2>4. Quiet
    BY <2>3 DEF Quiet
  <2>5. req'[r].got = db.clock + 1 /\ req'[r].pc = "insert message"
    BY <1>0, <2>1 DEF RequestShape, Fields
  <2>6. \A q \in Request : q # r => req'[q] = req[q]
    BY <1>0, <2>1 DEF RequestShape
  <2>7. TimesOK /\ TimesApart(db)
    BY DEF ShowInv, TimesOK
  <2>8. db.clock \in Nat /\ db.clock + 1 \in Nat /\ db.clock <= db.clock + 1 /\ db.clock + 1 <= db.clock + 1
    BY <2>7 DEF TimesApart
  <2>9. \A n \in Nat : n <= db.clock => n <= db.clock + 1 /\ n # db.clock + 1
    BY <2>8
  <2>10. TimesApart(db')
    BY <2>2, <2>3, <2>7, <2>8, <2>9 DEF TimesApart
  <2>11. ASSUME NEW q \in Request, req'[q].pc = "insert message"
         PROVE  /\ req'[q].got \in Nat /\ req'[q].got <= db'.clock
                /\ \A m \in DOMAIN db'.message : db'.message[m].at # req'[q].got
                /\ \A p \in Request : p # q /\ req'[p].pc = "insert message" => req'[q].got # req'[p].got
    <3>1. \A p \in Request : p # r /\ req'[p].pc = "insert message" =>
            /\ req'[p].got \in Nat /\ req'[p].got <= db.clock
            /\ \A m \in DOMAIN db.message : db.message[m].at # req'[p].got
            /\ \A x \in Request : x # p /\ x # r /\ req'[x].pc = "insert message" => req'[p].got # req'[x].got
      BY <2>6, <2>7 DEF TimesOK, At, Got
    <3>2. \A m \in DOMAIN db.message : db.message[m].at # db.clock + 1
      BY <2>7, <2>9 DEF TimesApart
    <3>3. CASE q = r
      <4>1. \A p \in Request : p # r /\ req'[p].pc = "insert message" => req'[p].got # db.clock + 1
        BY <2>9, <3>1
      <4> QED BY <2>2, <2>3, <2>5, <2>8, <3>2, <3>3, <4>1
    <3>4. CASE q # r
      <4>1. req'[q].got \in Nat /\ req'[q].got <= db.clock
        BY <2>11, <3>1, <3>4
      <4>2. req'[q].got <= db.clock + 1 /\ req'[q].got # db.clock + 1
        BY <2>9, <4>1
      <4>3. \A p \in Request : p # q /\ req'[p].pc = "insert message" => req'[q].got # req'[p].got
        BY <2>5, <2>11, <3>1, <3>4, <4>2
      <4> QED BY <2>2, <2>3, <2>11, <3>1, <3>4, <4>1, <4>2, <4>3
    <3> QED BY <3>3, <3>4
  <2>12. TimesOK'
    BY <2>10, <2>11 DEF TimesOK, At, Got
  <2>13. Stays /\ EventsFit(db')
    BY <2>4, QuietStays, QuietEvents DEF ShowInv
  <2> QED BY <1>1, <1>2, <2>12, <2>13, NoisyTurn
<1> QED BY <1>3, <1>4

\* A message that is posted has a time of its own.
LEMMA CreateMessageShows ==
  ASSUME Inv, ShowInv, NEW r \in Request, index' = index, CreateMessageTx(r)
  PROVE  ShowInv'
<1>0. RequestShape(r) /\ IsTables(db) /\ DOMAIN db = TableNames
  BY ShapeOK DEF Inv, IsTables
<1>1. Turn(r, {"insert message"}, {"done"})
  BY <1>0, MessageTurns
<1>2. Aside({"insert message"}) /\ GoesAside({"done"})
  BY AsideMembers DEF Aside, GoesAside, Elsewhere
<1>3. PICK c, row : c = Do(r).room /\ row = [room |-> c, author |-> Caller(r).user, at |-> Got(r), body |-> "posted", deleted |-> FALSE]
  OBVIOUS
<1>4. /\ Only(db, db', {"message", "room", "told"}) /\ DOMAIN db'.message = DOMAIN db.message \cup {r}
      /\ db'.message[r] = row
      /\ \A x \in DOMAIN db.message \ {r} : db'.message[x] = db.message[x]
      /\ DOMAIN db'.room = DOMAIN db.room
      /\ \A x \in DOMAIN db.room : db'.room[x].space = db.room[x].space /\ db'.room[x].policy = db.room[x].policy
      /\ TellsOf(db, db', c, db.room[c].space)
  BY <1>0, <1>3, MessageRows
<1>5. db'.event = db.event /\ db'.clock = db.clock
  BY <1>4 DEF Only, TableNames
<1>6. r \notin DOMAIN db["message"] /\ At(r, "insert message")
  <2>1. At(r, "insert message")
    BY DEF CreateMessageTx
  <2> QED BY <2>1, NotThere DEF At, NamedByRequest
<1>7. \A x \in DOMAIN db.message : x # r /\ db'.message[x] = db.message[x]
  BY <1>4, <1>6
<1>8. Stays
  BY <1>4, <1>5, <1>7 DEF Stays
<1>9. c \in DOMAIN db.room
  BY <1>3, <1>6 DEF Inv, StepOK, RoomOK, At
<1>10. EventsFit(db')
  BY <1>4, <1>5, <1>8, <1>9, TellsFit DEF ShowInv
<1>11. TimesOK /\ TimesApart(db)
  BY DEF ShowInv, TimesOK
<1>12. row.at = Got(r)
  BY <1>3
<1>13. /\ Got(r) \in Nat /\ Got(r) <= db.clock
       /\ \A m \in DOMAIN db.message : db.message[m].at # Got(r)
       /\ \A q \in Request : q # r /\ At(q, "insert message") => Got(q) # Got(r)
  BY <1>6, <1>11 DEF TimesOK
<1>14. TimesApart(db')
  <2>1. IsFiniteSet(DOMAIN db'.message)
    <3>1. IsFiniteSet(DOMAIN db.message)
      BY <1>11 DEF TimesApart
    <3> QED BY <1>4, <3>1, FS_AddElement
  <2>2. \A m \in DOMAIN db'.message : db'.message[m].at \in Nat /\ db'.message[m].at <= db'.clock
    BY <1>4, <1>5, <1>7, <1>11, <1>12, <1>13 DEF TimesApart
  <2>3. \A m, n \in DOMAIN db'.message : db'.message[m].at = db'.message[n].at => m = n
    BY <1>4, <1>7, <1>11, <1>12, <1>13 DEF TimesApart
  <2>4. db'.clock \in Nat
    BY <1>5, <1>11 DEF TimesApart
  <2> QED BY <2>1, <2>2, <2>3, <2>4 DEF TimesApart
<1>15. \A q \in Request : req'[q].pc = "insert message" => q # r /\ req'[q] = req[q]
  BY <1>0, <1>1 DEF Turn, RequestShape
<1>16. ASSUME NEW q \in Request, req'[q].pc = "insert message"
       PROVE  /\ req'[q].got \in Nat /\ req'[q].got <= db'.clock
              /\ \A m \in DOMAIN db'.message : db'.message[m].at # req'[q].got
              /\ \A p \in Request : p # q /\ req'[p].pc = "insert message" => req'[q].got # req'[p].got
  <2>1. q # r /\ req'[q] = req[q] /\ At(q, "insert message")
    BY <1>15, <1>16 DEF At
  <2>2. /\ req[q].got \in Nat /\ req[q].got <= db.clock
        /\ \A m \in DOMAIN db.message : db.message[m].at # req[q].got
        /\ \A p \in Request : p # q /\ req[p].pc = "insert message" => req[q].got # req[p].got
    BY <1>11, <2>1 DEF TimesOK, At, Got
  <2>3. req[q].got # Got(r)
    BY <1>13, <2>1 DEF Got
  <2>4. \A m \in DOMAIN db'.message : db'.message[m].at # req[q].got
    BY <1>4, <1>7, <1>12, <2>2, <2>3
  <2> QED BY <1>5, <1>15, <2>1, <2>2, <2>4
<1>17. TimesOK'
  BY <1>14, <1>16 DEF TimesOK, At, Got
<1> QED BY <1>1, <1>2, <1>8, <1>10, <1>17, NoisyTurn

LEMMA CreateWorkspaceShows ==
  ASSUME Inv, ShowInv, NEW r \in Request, index' = index, CreateWorkspaceTx(r)
  PROVE  ShowInv'
<1>0. RequestShape(r) /\ IsTables(db) /\ DOMAIN db = TableNames
  BY ShapeOK DEF Inv, IsTables
<1>1. Turn(r, {"createWorkspace"}, {"done"})
  BY <1>0, MessageTurns
<1>2. Aside({"createWorkspace"}) /\ GoesAside({"done"})
  BY AsideMembers DEF Aside, GoesAside
<1>3. CASE Refuse(r) \/ Fails(r)
  <2>1. db' = db
    BY <1>3 DEF Refuse, Fails
  <2>2. "insert message" \notin {"done"}
    OBVIOUS
  <2> QED BY <1>1, <1>2, <2>1, <2>2, LookTurn
<1>4. CASE ~(Refuse(r) \/ Fails(r))
  <2>1. PICK u : u = Caller(r).user
    OBVIOUS
  <2>2. /\ Only(db, db', {"space", "member", "room", "told"}) /\ DOMAIN db'.room = DOMAIN db.room \cup {r}
        /\ db'.room[r].space = r /\ \A x \in DOMAIN db.room \ {r} : db'.room[x] = db.room[x]
        /\ TellsOf(db, db', r, r)
    BY <1>0, <1>4, <2>1, WorkspaceRows
  <2>3. db'.message = db.message /\ db'.event = db.event /\ db'.clock = db.clock
    BY <2>2 DEF Only, TableNames
  <2>4. r \notin DOMAIN db["room"]
    <3>1. At(r, "createWorkspace")
      BY DEF CreateWorkspaceTx
    <3> QED BY <3>1, NotThere DEF At, NamedByRequest
  <2>5. Stays
    BY <2>2, <2>3, <2>4 DEF Stays
  <2>6. EventsFit(db')
    BY <2>2, <2>3, <2>5, TellsFit DEF ShowInv
  <2>7. req' = [req EXCEPT ![r] = req'[r]] /\ req'[r].pc # "insert message"
    BY <1>1 DEF Turn
  <2>8. TimesOK'
    BY <2>3, <2>5, <2>7, TimesStay DEF ShowInv
  <2> QED BY <1>1, <1>2, <2>5, <2>6, <2>8, NoisyTurn
<1> QED BY <1>3, <1>4

\* The conversation of the message that is to be changed is there.
LEMMA LoadMessageShows ==
  ASSUME Inv, ShowInv, NEW r \in Request, index' = index, LoadMessage(r)
  PROVE  ShowInv'
<1>0. RequestShape(r) /\ References(db)
  BY ShapeOK DEF Inv
<1>1. Turn(r, {"editMessage", "deleteMessage"}, {"edit", "delete", "done"}) /\ db' = db
  BY <1>0, MessageTurns
<1>2. req[r].pc \in AsideOps
  BY AsideMembers DEF LoadMessage
<1>3. req[r].pc = Do(r).op
  BY <1>2, AsidePlaces, FirstStep
<1>4. Do(r).op \notin ReadOps \cup ListOps \cup {"search"}
  BY <1>2, <1>3, AsidePlaces
<1>5. req'[r].do = req[r].do /\ req'[r].auth = req[r].auth /\ req'[r].pc \in {"edit", "delete", "done"}
  BY <1>1 DEF Turn
<1>6. PlaceOK(r)'
  BY <1>4, <1>5 DEF PlaceOK, At, Do, Searching
<1>7. req'[r].pc \in {"edit", "delete"} => req'[r].got \in DOMAIN db.room
  <2>1. SUFFICES ASSUME req'[r].pc \in {"edit", "delete"} PROVE req'[r].got \in DOMAIN db.room
    OBVIOUS
  <2>2. CASE Refuse(r)
    <3>1. req' = [req EXCEPT ![r] = [req[r] EXCEPT !.pc = "done", !.answer = "refused", !.tx = FALSE, !.locks = {}]]
      BY <2>2 DEF Refuse, Answer, Becomes
    <3> QED BY <1>0, <2>1, <3>1 DEF RequestShape, Fields
  <2>3. CASE ~Refuse(r)
    <3>1. PICK m : m = Do(r).message
      OBVIOUS
    <3>2. m \in DOMAIN db.message
      BY <2>3, <3>1 DEF LoadMessage, GetMessage
    <3>3. PICK step : req' = [req EXCEPT ![r] = [req[r] EXCEPT !.got = db.message[m].room, !.pc = step]]
      BY <2>3, <3>1 DEF LoadMessage, Read, Becomes
    <3>4. req'[r].got = db.message[m].room
      BY <1>0, <3>3 DEF RequestShape, Fields
    <3> QED BY <1>0, <3>2, <3>4 DEF References
  <2> QED BY <2>2, <2>3
<1>8. KeyScoped(r)'
  BY <1>1, <1>5, <1>7 DEF KeyScoped, At, Searching, Got
<1>9. PagesOK(r)'
  BY <1>4, <1>5 DEF PagesOK, Do, ListOps
<1>10. RequestShows(r)'
  BY <1>6, <1>8, <1>9 DEF RequestShows
<1>11. Quiet /\ Stays
  BY <1>1, SameQuiet, QuietStays
<1>12. EventsFit(db')
  BY <1>11, QuietEvents DEF ShowInv
<1>13. req' = [req EXCEPT ![r] = req'[r]] /\ req'[r].pc # "insert message"
  BY <1>1 DEF Turn
<1>14. TimesOK'
  BY <1>1, <1>11, <1>13, TimesStay DEF ShowInv
<1> QED BY <1>10, <1>11, <1>12, <1>13, <1>14, ShowStep

-----------------------------------------------------------------------------
(***************************************************************************)
(* The requests that show something, and the ends of all.                  *)
(***************************************************************************)

\* A step that changes no row.
LEMMA StillShows ==
  ASSUME Inv, ShowInv, NEW r \in Request, req' = [req EXCEPT ![r] = req'[r]], index' = index, db' = db,
         req'[r].pc # "insert message", RequestShows(r)'
  PROVE  ShowInv'
<1>1. Quiet /\ Stays
  BY SameQuiet, QuietStays
<1>2. EventsFit(db')
  BY <1>1, QuietEvents DEF ShowInv
<1>3. TimesOK'
  BY <1>1, TimesStay DEF ShowInv
<1> QED BY <1>1, <1>2, <1>3, ShowStep

LEMMA AheadSame ==
  ASSUME db' = db, NEW r, req'[r].got = req[r].got, NEW m, Ahead(r, m)
  PROVE  Ahead(r, m)'
<1>1. PICK S : S = Newer(m)
  OBVIOUS
<1>2. PICK T : T = Newer(m)'
  OBVIOUS
<1>3. S = T
  BY <1>1, <1>2 DEF Newer, MessagesOf
<1>4. (<<"message", m>> \in Got(r).shown)' <=> <<"message", m>> \in Got(r).shown
  BY DEF Got
<1>5. Ahead(r, m)' <=> (<<"message", m>> \in Got(r).shown)' \/ AtLeast(Got(r).cursor, T)
  BY <1>2 DEF Ahead, Got, AtLeast
<1> QED BY <1>1, <1>3, <1>4, <1>5 DEF Ahead

LEMMA PagesSame ==
  ASSUME db' = db, NEW r, req'[r].do = req[r].do, req'[r].got = req[r].got, PagesOK(r),
         ~(req'[r].pc = "done" /\ req'[r].answer = "ok")
  PROVE  PagesOK(r)'
<1>1. Got(r)' = Got(r) /\ Do(r)' = Do(r)
  BY DEF Got, Do
<1>2. MessagesOf(Do(r).room)' = MessagesOf(Do(r).room)
  BY DEF MessagesOf, Do
<1>3. \A m : Ahead(r, m) => Ahead(r, m)'
  BY AheadSame
<1>4. SUFFICES ASSUME (Do(r) # None /\ Do(r).op = "listMessages" /\ Got(r) # Nothing)'
               PROVE  PagesOK(r)'
  BY DEF PagesOK
<1>5. /\ Got(r).cursor \in Nat /\ Got(r).start \subseteq MessagesOf(Do(r).room)
      /\ \A m \in Got(r).start : Ahead(r, m)
  BY <1>1, <1>4 DEF PagesOK
<1>6. \A m \in Got(r).start : Ahead(r, m)'
  BY <1>3, <1>5
<1> QED BY <1>1, <1>2, <1>5, <1>6 DEF PagesOK, At

\* A request that is refused, or fails, or crashes.
LEMMA EndShows ==
  ASSUME Inv, ShowInv, NEW r \in Request, req[r].pc # "new", Refuse(r) \/ Fails(r), index' = index
  PROVE  ShowInv'
<1>1. RequestShape(r)
  BY ShapeOK
<1>2. PICK from : from = {req[r].pc}
  OBVIOUS
<1>3. Turn(r, from, {"done"}) /\ db' = db /\ req'[r].answer # "ok" /\ req'[r].got = req[r].got
  BY <1>1, <1>2, RefuseTurn
<1>4. req' = [req EXCEPT ![r] = req'[r]] /\ req'[r].do = req[r].do /\ req'[r].pc = "done"
  BY <1>3 DEF Turn
<1>5. PlaceOK(r) /\ PagesOK(r)
  BY DEF ShowInv, RequestShows
<1>6. "done" \notin {"new", "page", "authenticate"} \cup Searching \cup Elsewhere \cup ReadOps
  BY AsidePlaces DEF Searching, Elsewhere, ReadOps
<1>7. PlaceOK(r)'
  BY <1>3, <1>4, <1>5, <1>6 DEF PlaceOK, At, Do, Got
<1>8. KeyScoped(r)'
  BY <1>4 DEF KeyScoped, At, Searching
<1>9. PagesOK(r)'
  BY <1>3, <1>4, <1>5, PagesSame
<1> QED BY <1>3, <1>4, <1>7, <1>8, <1>9, StillShows DEF RequestShows

LEMMA SendShows ==
  ASSUME Inv, ShowInv, NEW r \in Request, Send(r), index' = index
  PROVE  ShowInv'
<1>1. PICK do \in Scenes[scene].asks[r] :
        Becomes(r, [New EXCEPT !.do = do, !.pc = IF do.op \in Unauthenticated THEN do.op ELSE "authenticate"])
  BY DEF Send
<1>2. IsCommand(do)
  BY ScenesAssumption DEF Inv
<1>3. PICK step : step = IF do.op \in Unauthenticated THEN do.op ELSE "authenticate"
  OBVIOUS
<1>4. PICK e : e = [New EXCEPT !.do = do, !.pc = step]
  OBVIOUS
<1>5. e.do = do /\ e.pc = step /\ e.answer = None /\ e.got = Nothing
  BY <1>4 DEF New
<1>6. req' = [req EXCEPT ![r] = e] /\ DOMAIN req = Request
  BY <1>1, <1>3, <1>4 DEF Becomes, Inv
<1>7. req'[r] = e /\ req' = [req EXCEPT ![r] = req'[r]] /\ db' = db
  BY <1>6 DEF Send
<1>8. step \in Unauthenticated \cup {"authenticate"}
  BY <1>3
<1>9. step \notin {"new", "page", "done", "insert message", "edit", "delete"} \cup Searching
  BY <1>8, Zenon DEF Unauthenticated, Searching
<1>10. step \notin Elsewhere
  <2>1. \A x \in Unauthenticated \cup {"authenticate"} : x \notin AsideSteps
    BY Zenon DEF Unauthenticated, AsideSteps
  <2> QED BY <1>8, <1>9, <2>1 DEF Elsewhere
<1>11. PlaceOK(r)'
  BY <1>5, <1>7, <1>9, <1>10, NoneAssumption DEF PlaceOK, At, Do, Got
<1>12. KeyScoped(r)'
  BY <1>5, <1>7, <1>9 DEF KeyScoped, At, Searching
<1>13. PagesOK(r)'
  BY <1>5, <1>7 DEF PagesOK, Got
<1> QED BY <1>5, <1>7, <1>9, <1>11, <1>12, <1>13, StillShows DEF RequestShows

LEMMA AuthenticateShows ==
  ASSUME Inv, ShowInv, NEW r \in Request, Authenticate(r), index' = index
  PROVE  ShowInv'
<1>0. RequestShape(r) /\ RequestOK(r)
  BY ShapeOK DEF Inv
<1>1. req[r].pc = "authenticate" /\ db' = db
  BY DEF Authenticate, At
<1>2. CASE Answer(r, "refused")
  <2>1. Refuse(r)
    BY <1>1, <1>2 DEF Refuse
  <2> QED BY <1>1, <2>1, EndShows
<1>3. ASSUME NEW auth \in AuthenticateRequest(Do(r).as), Becomes(r, [req[r] EXCEPT !.auth = auth, !.pc = Do(r).op])
      PROVE  ShowInv'
  <2>1. PICK step : step = Do(r).op
    OBVIOUS
  <2>2. PICK e : e = [req[r] EXCEPT !.auth = auth, !.pc = step]
    OBVIOUS
  <2>3. e.do = req[r].do /\ e.pc = step /\ e.got = req[r].got /\ e.answer = req[r].answer
    BY <1>0, <2>2 DEF RequestShape, Fields
  <2>4. req' = [req EXCEPT ![r] = e] /\ DOMAIN req = Request
    BY <1>3, <2>1, <2>2 DEF Becomes, Inv
  <2>5. req'[r] = e /\ req' = [req EXCEPT ![r] = req'[r]]
    BY <2>4
  <2>6. step \notin Steps
    BY <1>0, <1>1, <2>1 DEF RequestOK, At, IsCommand
  <2>7. step \notin {"new", "page", "done", "insert message", "edit", "delete", "authenticate"}
    BY <2>6 DEF Steps
  <2>8. step \notin Searching /\ step \notin Elsewhere
    BY <2>6, <2>7, AsidePlaces DEF Elsewhere
  <2>9. req[r].answer # "ok"
    BY <1>0, <1>1, NoneAssumption DEF RequestOK, At
  <2>10. PlaceOK(r) /\ PagesOK(r)
    BY DEF ShowInv, RequestShows
  <2>11. PlaceOK(r)'
    BY <1>1, <2>1, <2>3, <2>5, <2>7, <2>8, <2>9, <2>10 DEF PlaceOK, At, Do, Got
  <2>12. KeyScoped(r)'
    BY <2>3, <2>5, <2>7, <2>8 DEF KeyScoped, At, Searching
  <2>13. PagesOK(r)'
    BY <1>1, <2>3, <2>5, <2>7, <2>10, PagesSame
  <2> QED BY <1>1, <2>3, <2>5, <2>7, <2>11, <2>12, <2>13, StillShows DEF RequestShows
<1> QED BY <1>2, <1>3 DEF Authenticate

LEMMA CrashShows ==
  ASSUME Inv, ShowInv, NEW r \in Request, Crash(r), index' = index
  PROVE  ShowInv'
BY EndShows DEF Crash

\* The reads that answer at once.
LEMMA ReadShows ==
  ASSUME Inv, ShowInv, NEW r \in Request, Show(r), index' = index
  PROVE  ShowInv'
<1>0. RequestShape(r)
  BY ShapeOK
<1>1. Turn(r, ReadOps, {"done"}) /\ db' = db
  BY <1>0, ReadTurns
<1>2. req' = [req EXCEPT ![r] = req'[r]] /\ req'[r].do = req[r].do /\ req'[r].pc = "done" /\ req[r].pc \in ReadOps
  BY <1>1 DEF Turn
<1>3. req[r].pc = Do(r).op
  BY <1>2, AsidePlaces, FirstStep
<1>4. "done" \notin {"new", "page", "authenticate"} \cup Searching \cup Elsewhere \cup ReadOps
  BY AsidePlaces DEF Searching, Elsewhere, ReadOps
<1>5. Do(r).op \notin ListOps
  BY <1>2, <1>3 DEF ReadOps, ListOps
<1>6. PlaceOK(r)'
  BY <1>2, <1>4, <1>5 DEF PlaceOK, At, Do
<1>7. KeyScoped(r)'
  BY <1>2 DEF KeyScoped, At, Searching
<1>8. PagesOK(r)'
  BY <1>2, <1>5 DEF PagesOK, Do, ListOps
<1> QED BY <1>1, <1>2, <1>6, <1>7, <1>8, StillShows DEF RequestShows

\* Messages in the order of a list: where a message is, and what is before it.
Clocked(rows, time) ==
  /\ IsFiniteSet(rows) /\ \A x \in rows : time[x] \in Nat
  /\ \A x, y \in rows : time[x] = time[y] => x = y

Later(rows, time, m) == {x \in rows : time[x] > time[m]}

LEMMA AtLeastNone == ASSUME NEW S PROVE AtLeast(0, S)
<1>1. PICK f : f = [x \in 1 .. 0 |-> x]
  OBVIOUS
<1>2. f \in [1 .. 0 -> S] /\ \A i, k \in 1 .. 0 : f[i] = f[k] => i = k
  BY <1>1
<1> QED BY <1>2 DEF AtLeast

LEMMA PageOrAhead ==
  ASSUME NEW posted, NEW time, Clocked(posted, time), NEW rows \in Newest(posted, time),
         NEW n \in Nat, NEW m \in posted, NEW S, S = Later(posted, time, m), AtLeast(n, S)
  PROVE  \E k \in DOMAIN rows : rows[k] = m /\
           (k \in n + 1 .. n + Limit \/ (AtLeast(n + Limit, S) /\ n + Limit + 1 \in DOMAIN rows))
<1>1. PICK N : N = Cardinality(posted)
  OBVIOUS
<1>2. N \in Nat /\ Limit \in Nat
  BY <1>1, FS_CardinalityType, LimitAssumption DEF Clocked
<1>3. /\ rows \in [1 .. N -> posted] /\ \A x \in posted : \E i \in 1 .. N : rows[i] = x
      /\ \A i, k \in 1 .. N : i < k => rows[i] # rows[k] /\ time[rows[i]] >= time[rows[k]]
  BY <1>1 DEF Newest
<1>4. PICK k \in 1 .. N : rows[k] = m
  BY <1>3
<1>5. k \in Nat /\ k >= 1 /\ k <= N
  BY <1>2
<1>6. ASSUME NEW i \in 1 .. N, rows[i] \in S PROVE i < k
  <2>1. rows[i] \in posted /\ time[rows[i]] > time[m]
    BY <1>6 DEF Later
  <2>2. time[rows[i]] \in Nat /\ time[m] \in Nat
    BY <2>1 DEF Clocked
  <2>3. i # k
    BY <1>4, <2>1, <2>2
  <2>4. ~(k < i)
    BY <1>3, <1>4, <2>1, <2>2
  <2>5. i \in Nat
    BY <1>2
  <2> QED BY <1>5, <2>3, <2>4, <2>5
<1>7. n < k
  <2>1. SUFFICES ASSUME k - 1 < n PROVE FALSE
    BY <1>5
  <2>2. PICK f \in [1 .. n -> S] : \A i, j \in 1 .. n : f[i] = f[j] => i = j
    BY DEF AtLeast
  <2>3. PICK g : g = [x \in S |-> CHOOSE i \in 1 .. N : rows[i] = x]
    OBVIOUS
  <2>4. \A x \in S : g[x] \in 1 .. N /\ rows[g[x]] = x
    <3>1. \A x \in S : \E i \in 1 .. N : rows[i] = x
      BY <1>3 DEF Later
    <3> QED BY <2>3, <3>1
  <2>5. \A x \in S : g[x] \in 1 .. k - 1
    <3> SUFFICES ASSUME NEW x \in S PROVE g[x] \in 1 .. k - 1
      OBVIOUS
    <3>1. g[x] \in 1 .. N /\ rows[g[x]] \in S
      BY <2>4
    <3>2. g[x] < k
      BY <1>6, <3>1
    <3> QED BY <1>2, <1>5, <3>1, <3>2
  <2>6. PICK h : h = [i \in 1 .. n |-> g[f[i]]]
    OBVIOUS
  <2>7. h \in [1 .. n -> 1 .. k - 1]
    BY <2>2, <2>5, <2>6
  <2>8. \A i, j \in 1 .. n : h[i] = h[j] => i = j
    BY <2>2, <2>4, <2>6
  <2>9. IsFiniteSet(1 .. n) /\ Cardinality(1 .. n) = n
    <3>1. 1 \in Int /\ n \in Int /\ (IF 1 > n THEN 0 ELSE n - 1 + 1) = n
      OBVIOUS
    <3> QED BY <3>1, FS_Interval
  <2>10. IsFiniteSet(1 .. k - 1) /\ Cardinality(1 .. k - 1) = k - 1
    <3>1. 1 \in Int /\ k - 1 \in Int /\ (IF 1 > k - 1 THEN 0 ELSE (k - 1) - 1 + 1) = k - 1
      BY <1>5
    <3> QED BY <3>1, FS_Interval
  <2>11. PICK A, B : A = 1 .. n /\ B = 1 .. k - 1
    OBVIOUS
  <2>12. IsFiniteSet(A) /\ IsFiniteSet(B) /\ h \in [A -> B]
    BY <2>7, <2>9, <2>10, <2>11
  <2>13. Cardinality(A) = n /\ Cardinality(B) = k - 1
    BY <2>9, <2>10, <2>11
  <2>14. Cardinality(B) < Cardinality(A)
    BY <2>1, <2>13
  <2>15. \E i, j \in A : i # j /\ h[i] = h[j]
    BY <2>12, <2>14, FS_PigeonHole
  <2> QED BY <2>8, <2>11, <2>15
<1>8. CASE k <= n + Limit
  BY <1>2, <1>3, <1>4, <1>5, <1>7, <1>8
<1>9. CASE k > n + Limit
  <2>1. PICK f : f = [i \in 1 .. n + Limit |-> rows[i]]
    OBVIOUS
  <2>2. \A i \in 1 .. n + Limit : i \in 1 .. N /\ i < k
    BY <1>2, <1>5, <1>9
  <2>3. ASSUME NEW i \in 1 .. n + Limit PROVE rows[i] \in S
    <3>1. i \in 1 .. N /\ i < k
      BY <2>2
    <3>2. rows[i] \in posted /\ rows[i] # m /\ time[rows[i]] >= time[m]
      BY <1>3, <1>4, <3>1
    <3>3. time[rows[i]] \in Nat /\ time[m] \in Nat /\ time[rows[i]] # time[m]
      BY <3>2 DEF Clocked
    <3>4. time[rows[i]] > time[m]
      BY <3>2, <3>3
    <3> QED BY <3>2, <3>4 DEF Later
  <2>4. f \in [1 .. n + Limit -> S]
    BY <2>1, <2>3
  <2>5. \A i, j \in 1 .. n + Limit : f[i] = f[j] => i = j
    <3>1. \A i, j \in 1 .. n + Limit : i < j => rows[i] # rows[j]
      BY <1>3, <2>2
    <3>2. \A i, j \in 1 .. n + Limit : i < j \/ j < i \/ i = j
      BY <1>2
    <3> QED BY <2>1, <3>1, <3>2
  <2>6. AtLeast(n + Limit, S)
    BY <2>4, <2>5 DEF AtLeast
  <2>7. n + Limit + 1 \in DOMAIN rows
    BY <1>2, <1>3, <1>5, <1>9
  <2> QED BY <1>3, <1>4, <2>6, <2>7
<1> QED BY <1>2, <1>5, <1>8, <1>9

LEMMA CheckListShows ==
  ASSUME Inv, ShowInv, NEW r \in Request, CheckList(r), index' = index
  PROVE  ShowInv'
<1>0. RequestShape(r)
  BY ShapeOK
<1>1. req[r].pc \in ListOps /\ req[r].pc # "new"
  BY DEF CheckList, ListOps
<1>2. req[r].pc = Do(r).op
  BY <1>1, AsidePlaces, FirstStep
<1>3. CASE ~MayList(r)
  <2>1. Refuse(r)
    BY <1>3 DEF CheckList
  <2> QED BY <1>1, <2>1, EndShows
<1>4. CASE MayList(r)
  <2>1. PICK got : got = IF Got(r) = Nothing THEN [cursor |-> 0, shown |-> {}, start |-> Listed(r)] ELSE Got(r)
    OBVIOUS
  <2>2. Read(r, got, "page")
    BY <1>4, <2>1 DEF CheckList
  <2>3. "page" # "done" /\ "done" \notin ListOps
    BY DEF ListOps
  <2>4. Turn(r, ListOps, {"page"}) /\ db' = db /\ req'[r].got = got
    BY <1>0, <1>1, <2>2, <2>3, ReadTurn
  <2>5. /\ req' = [req EXCEPT ![r] = req'[r]] /\ req'[r].do = req[r].do /\ req'[r].auth = req[r].auth
        /\ req'[r].pc = "page"
    BY <2>4 DEF Turn
  <2>6. PlaceOK(r) /\ PagesOK(r)
    BY DEF ShowInv, RequestShows
  <2>7. DOMAIN got = ListFields
    <3>1. Got(r) # Nothing => DOMAIN Got(r) = ListFields
      BY <1>1, <1>2, <2>6 DEF PlaceOK, At
    <3> QED BY <2>1, <3>1 DEF ListFields
  <2>8. "page" \notin {"new", "authenticate"} \cup Searching \cup Elsewhere \cup ReadOps
    BY AsidePlaces DEF Searching, Elsewhere, ReadOps
  <2>9. PlaceOK(r)'
    BY <1>1, <1>2, <2>4, <2>5, <2>7, <2>8 DEF PlaceOK, At, Do, Got
  <2>10. KeyScoped(r)'
    <3>1. Do(r).op = "listEvents" /\ Caller(r).space # None => Do(r).space = Caller(r).space
      BY <1>4 DEF MayList
    <3> QED BY <2>5, <3>1 DEF KeyScoped, At, Do, Caller, Searching
  <2>11. PagesOK(r)'
    <3>1. CASE Got(r) # Nothing
      <4>1. req'[r].got = req[r].got
        BY <2>1, <2>4, <3>1 DEF Got
      <4>2. req'[r].pc # "done"
        BY <2>5
      <4> QED BY <2>4, <2>5, <2>6, <4>1, <4>2, PagesSame
    <3>2. CASE Do(r).op # "listMessages"
      BY <2>5, <3>2 DEF PagesOK, Do
    <3>3. CASE Got(r) = Nothing /\ Do(r).op = "listMessages"
      <4>1. got.cursor = 0 /\ got.start = MessagesOf(Do(r).room)
        BY <2>1, <3>3 DEF Listed
      <4>2. \A m : Ahead(r, m)'
        BY <2>4, <4>1, AtLeastNone DEF Ahead, Got
      <4>3. MessagesOf(Do(r).room)' = MessagesOf(Do(r).room)
        BY <2>4, <2>5 DEF MessagesOf, Do
      <4> QED BY <2>4, <2>5, <4>1, <4>2, <4>3 DEF PagesOK, At, Got
    <3> QED BY <3>1, <3>2, <3>3
  <2> QED BY <2>4, <2>5, <2>9, <2>10, <2>11, StillShows DEF RequestShows
<1> QED BY <1>3, <1>4

\* What a page adds.
LEMMA PagedGot ==
  ASSUME Inv, ShowInv, NEW r \in Request, NEW shown, NEW cursor, NEW more, Paged(r, shown, cursor, more), At(r, "page")
  PROVE  /\ req' = [req EXCEPT ![r] = req'[r]] /\ db' = db
         /\ req'[r].do = req[r].do /\ req'[r].auth = req[r].auth
         /\ req'[r].pc = (IF more THEN "authenticate" ELSE "done")
         /\ DOMAIN req'[r].got = ListFields /\ req'[r].got.shown = Got(r).shown \cup shown
         /\ req'[r].got.cursor = cursor /\ req'[r].got.start = Got(r).start
         /\ PlaceOK(r)' /\ KeyScoped(r)'
<1>0. RequestShape(r) /\ PlaceOK(r) /\ DOMAIN req = Request
  BY ShapeOK DEF ShowInv, RequestShows, Inv
<1>1. DOMAIN Got(r) = ListFields /\ Do(r).op \in ListOps
  BY <1>0 DEF PlaceOK
<1>2. PICK step, answer : step = (IF more THEN "authenticate" ELSE "done")
                          /\ answer = (IF more THEN req[r].answer ELSE "ok")
  OBVIOUS
<1>3. PICK e : e = [req[r] EXCEPT !.got.shown = @ \cup shown, !.got.cursor = cursor,
                                 !.pc = step, !.answer = answer]
  OBVIOUS
<1>4. req' = [req EXCEPT ![r] = e] /\ db' = db
  BY <1>2, <1>3 DEF Paged, Becomes
<1>5. e.do = req[r].do /\ e.auth = req[r].auth /\ e.pc = step
  BY <1>0, <1>3 DEF RequestShape, Fields
<1>6. /\ DOMAIN e.got = ListFields /\ e.got.shown = Got(r).shown \cup shown
      /\ e.got.cursor = cursor /\ e.got.start = Got(r).start
  BY <1>0, <1>1, <1>3 DEF RequestShape, Fields, Got, ListFields
<1>7. req'[r] = e /\ req' = [req EXCEPT ![r] = req'[r]]
  BY <1>0, <1>4
<1>8. step \in {"authenticate", "done"}
  BY <1>2
<1>9. step \notin {"new", "page", "edit", "delete"} \cup Searching \cup Elsewhere \cup ReadOps
  BY <1>8, AsidePlaces DEF Searching, Elsewhere, ReadOps
<1>10. Do(r).op \notin ReadOps
  BY <1>1 DEF ListOps, ReadOps
<1>11. PlaceOK(r)'
  BY <1>1, <1>5, <1>6, <1>7, <1>9, <1>10 DEF PlaceOK, At, Do, Got
<1>12. KeyScoped(r)'
  BY <1>5, <1>7, <1>9 DEF KeyScoped, At, Searching
<1>13. req'[r].pc = (IF more THEN "authenticate" ELSE "done")
  BY <1>2, <1>5, <1>7
<1> QED BY <1>4, <1>5, <1>6, <1>7, <1>11, <1>12, <1>13

LEMMA ListsShow ==
  ASSUME Inv, ShowInv, NEW r \in Request, index' = index
  PROVE  /\ ListConversations(r) => ShowInv'
         /\ ListEvents(r) => ShowInv'
<1>1. ASSUME NEW shown, NEW cursor, NEW more, Paged(r, shown, cursor, more), At(r, "page"), Do(r).op # "listMessages"
      PROVE  ShowInv'
  <2>1. /\ req' = [req EXCEPT ![r] = req'[r]] /\ db' = db /\ req'[r].do = req[r].do
        /\ req'[r].pc = (IF more THEN "authenticate" ELSE "done") /\ PlaceOK(r)' /\ KeyScoped(r)'
    BY <1>1, PagedGot
  <2>2. PagesOK(r)'
    BY <1>1, <2>1 DEF PagesOK, Do
  <2>3. req'[r].pc # "insert message"
    BY <2>1
  <2> QED BY <2>1, <2>2, <2>3, StillShows DEF RequestShows
<1>2. ASSUME ListConversations(r) PROVE ShowInv'
  <2>1. PICK shown, cursor, more : Paged(r, shown, cursor, more)
    BY <1>2 DEF ListConversations, OffsetPage
  <2> QED BY <1>1, <1>2, <2>1 DEF ListConversations
<1>3. ASSUME ListEvents(r) PROVE ShowInv'
  <2>1. PICK shown, cursor, more : Paged(r, shown, cursor, more)
    BY <1>3 DEF ListEvents
  <2> QED BY <1>1, <1>3, <2>1 DEF ListEvents
<1> QED BY <1>2, <1>3

\* A message that is not on this page is on one to come.
LEMMA ListMessagesShows ==
  ASSUME Inv, ShowInv, NEW r \in Request, ListMessages(r), index' = index
  PROVE  ShowInv'
<1>1. At(r, "page") /\ Do(r).op = "listMessages"
  BY DEF ListMessages
<1>2. PICK posted : posted = MessagesOf(Do(r).room)
  OBVIOUS
<1>3. PICK time : time = [m \in posted |-> db.message[m].at]
  OBVIOUS
<1>4. PICK rows \in Newest(posted, time) : OffsetPage(r, "message", rows)
  BY <1>2, <1>3 DEF ListMessages
<1>5. PICK n : n = Got(r).cursor
  OBVIOUS
<1>6. PICK page : page = {rows[i] : i \in DOMAIN rows \cap (n + 1 .. n + Limit)}
  OBVIOUS
<1>7. PICK more : more = (n + Limit + 1 \in DOMAIN rows)
  OBVIOUS
<1>8. Paged(r, Things("message", page), n + Limit, more)
  BY <1>4, <1>5, <1>6, <1>7 DEF OffsetPage
<1>9. /\ req' = [req EXCEPT ![r] = req'[r]] /\ db' = db /\ req'[r].do = req[r].do
      /\ req'[r].pc = (IF more THEN "authenticate" ELSE "done")
      /\ DOMAIN req'[r].got = ListFields /\ req'[r].got.shown = Got(r).shown \cup Things("message", page)
      /\ req'[r].got.cursor = n + Limit /\ req'[r].got.start = Got(r).start
      /\ PlaceOK(r)' /\ KeyScoped(r)'
  BY <1>1, <1>8, PagedGot
<1>10. PlaceOK(r) /\ PagesOK(r) /\ RequestOK(r) /\ TimesApart(db)
  BY DEF ShowInv, RequestShows, Inv, TimesOK
<1>11. Got(r) # Nothing /\ Do(r) # None
  BY <1>1, <1>10 DEF PlaceOK, ListFields, Nothing, RequestOK, IsCommand, At
<1>12. n \in Nat /\ Got(r).start \subseteq posted /\ \A m \in Got(r).start : Ahead(r, m)
  BY <1>1, <1>2, <1>5, <1>10, <1>11 DEF PagesOK
<1>13. Clocked(posted, time)
  <2>1. posted \subseteq DOMAIN db.message
    BY <1>2 DEF MessagesOf
  <2>2. IsFiniteSet(posted)
    BY <1>10, <2>1, FS_Subset DEF TimesApart
  <2> QED BY <1>3, <1>10, <2>1, <2>2 DEF Clocked, TimesApart
<1>14. ASSUME NEW m \in Got(r).start
       PROVE  /\ <<"message", m>> \in req'[r].got.shown \/ AtLeast(n + Limit, Newer(m))
              /\ ~more => <<"message", m>> \in req'[r].got.shown
  <2>1. CASE <<"message", m>> \in Got(r).shown
    BY <1>9, <2>1
  <2>2. CASE <<"message", m>> \notin Got(r).shown
    <3>1. PICK S : S = Newer(m)
      OBVIOUS
    <3>2. AtLeast(n, S)
      BY <1>5, <1>12, <2>2, <3>1 DEF Ahead
    <3>3. m \in posted /\ db.message[m].room = Do(r).room
      BY <1>2, <1>12 DEF MessagesOf
    <3>4. S = Later(posted, time, m)
      BY <1>2, <1>3, <3>1, <3>3 DEF Newer, Later
    <3>5. PICK k \in DOMAIN rows : rows[k] = m /\
            (k \in n + 1 .. n + Limit \/ (AtLeast(n + Limit, S) /\ n + Limit + 1 \in DOMAIN rows))
      BY <1>12, <1>13, <3>2, <3>3, <3>4, PageOrAhead
    <3>6. CASE k \in n + 1 .. n + Limit
      <4>1. m \in page
        BY <1>6, <3>5, <3>6
      <4> QED BY <1>9, <4>1 DEF Things
    <3>7. CASE AtLeast(n + Limit, S) /\ n + Limit + 1 \in DOMAIN rows
      BY <1>7, <3>1, <3>7
    <3> QED BY <3>5, <3>6, <3>7
  <2> QED BY <2>1, <2>2
<1>15. PagesOK(r)'
  <2>1. n + Limit \in Nat
    BY <1>12, LimitAssumption
  <2>2. MessagesOf(Do(r).room)' = posted
    BY <1>2, <1>9 DEF MessagesOf, Do
  <2>3. ASSUME NEW m \in Got(r).start PROVE Ahead(r, m)'
    <3>1. PICK S : S = Newer(m)
      OBVIOUS
    <3>2. PICK T : T = Newer(m)'
      OBVIOUS
    <3>3. S = T
      BY <1>9, <3>1, <3>2 DEF Newer, MessagesOf
    <3>4. Ahead(r, m)' <=> <<"message", m>> \in req'[r].got.shown \/ AtLeast(n + Limit, T)
      BY <1>9, <3>2 DEF Ahead, Got, AtLeast
    <3> QED BY <1>14, <3>1, <3>3, <3>4
  <2>4. req'[r].pc = "done" => \A m \in Got(r).start : <<"message", m>> \in req'[r].got.shown
    BY <1>9, <1>14
  <2>5. Got(r)' = req'[r].got
    BY DEF Got
  <2> QED BY <1>9, <1>12, <2>1, <2>2, <2>3, <2>4, <2>5 DEF PagesOK, At
<1>16. req'[r].pc # "insert message"
  BY <1>9
<1> QED BY <1>9, <1>15, <1>16, StillShows DEF RequestShows

-----------------------------------------------------------------------------
(***************************************************************************)
(* Searches.                                                               *)
(***************************************************************************)

\* A step of a search from one of its places to another, or to the next page.
LEMMA SearchGoes ==
  ASSUME Inv, ShowInv, NEW r \in Request, NEW from, NEW to, Turn(r, from, to), db' = db, index' = index,
         from = {"search"} \/ from = {"principals"} \/ from = {"candidates"} \/ from = {"hydrate"},
         req'[r].pc \in Searching \cup {"authenticate", "done"}, KeyScoped(r)'
  PROVE  ShowInv'
<1>1. Do(r).op = "search"
  <2>1. CASE req[r].pc \in Searching
    BY <2>1 DEF ShowInv, RequestShows, PlaceOK
  <2>2. CASE req[r].pc = "search"
    BY <2>2, AsidePlaces, FirstStep
  <2> QED BY <2>1, <2>2 DEF Turn, Searching
<1>2. req' = [req EXCEPT ![r] = req'[r]] /\ req'[r].do = req[r].do
  BY DEF Turn
<1>3. Do(r).op \notin ListOps \cup ReadOps /\ Do(r).op # "listMessages"
  BY <1>1 DEF ListOps, ReadOps
<1>4. req'[r].pc \notin {"new", "page", "insert message", "edit", "delete"} \cup AsideSteps
  BY AsidePlaces, AsideMembers DEF Searching
<1>5. req'[r].pc \notin Elsewhere
  BY <1>4 DEF Elsewhere
<1>6. PlaceOK(r)'
  BY <1>1, <1>2, <1>3, <1>4, <1>5 DEF PlaceOK, At, Do
<1>7. PagesOK(r)'
  BY <1>2, <1>3 DEF PagesOK, Do
<1> QED BY <1>2, <1>4, <1>6, <1>7, StillShows DEF RequestShows

LEMMA SearchShows ==
  ASSUME Inv, ShowInv, NEW r \in Request, index' = index
  PROVE  /\ StartSearch(r) => ShowInv'
         /\ ReadPrincipals(r) => ShowInv'
         /\ QueryCandidates(r) => ShowInv'
         /\ Hydrate(r) => ShowInv'
         /\ FinishSearch(r) => ShowInv'
<1>0. RequestShape(r) /\ KeyScoped(r) /\ DOMAIN req = Request
  BY ShapeOK DEF ShowInv, RequestShows, Inv
<1>1. ASSUME StartSearch(r) PROVE ShowInv'
  <2>1. CASE Refuse(r)
    <3>1. req[r].pc # "new"
      BY <1>1 DEF StartSearch, At
    <3> QED BY <2>1, <3>1, EndShows
  <2>2. CASE ~Refuse(r)
    <3>1. MaySearch(Caller(r), Do(r)) /\ \E got : Read(r, got, "principals")
      BY <1>1, <2>2 DEF StartSearch
    <3>2. PICK got : Read(r, got, "principals")
      BY <3>1
    <3>3. req[r].pc \in {"search"} /\ "done" \notin {"search"}
      BY <1>1 DEF StartSearch, At
    <3>4. Turn(r, {"search"}, {"principals"}) /\ db' = db
      BY <1>0, <3>2, <3>3, ReadTurn
    <3>5. req'[r].pc = "principals" /\ req'[r].do = req[r].do /\ req'[r].auth = req[r].auth
      BY <3>4 DEF Turn
    <3>6. Caller(r).space # None => SearchedSpace(Caller(r), Do(r)) = Caller(r).space
      BY <3>1 DEF MaySearch
    <3>7. KeyScoped(r)'
      BY <3>5, <3>6 DEF KeyScoped, At, Searching, Caller, Do, SearchedSpace
    <3>8. req'[r].pc \in Searching
      BY <3>5 DEF Searching
    <3> QED BY <3>4, <3>7, <3>8, SearchGoes
  <2> QED BY <2>1, <2>2
<1>2. ASSUME ReadPrincipals(r) PROVE ShowInv'
  <2>1. PICK w : w = SearchedSpace(Caller(r), Do(r))
    OBVIOUS
  <2>2. PICK p, shown : p = ResolveQueryPrincipals(Caller(r).user, AllowGlobal(Caller(r)), w) /\ shown = Got(r).shown
    OBVIOUS
  <2>3. PICK got : got = [principals |-> p, space |-> w, shown |-> shown]
    OBVIOUS
  <2>4. Read(r, got, "candidates")
    BY <1>2, <2>1, <2>2, <2>3 DEF ReadPrincipals
  <2>5. req[r].pc \in {"principals"} /\ "done" \notin {"principals"}
    BY <1>2 DEF ReadPrincipals, At
  <2>6. Turn(r, {"principals"}, {"candidates"}) /\ db' = db /\ req'[r].got = got
    BY <1>0, <2>4, <2>5, ReadTurn
  <2>7. req'[r].pc = "candidates" /\ req'[r].do = req[r].do /\ req'[r].auth = req[r].auth
    BY <2>6 DEF Turn
  <2>8. Caller(r).space # None => w = Caller(r).space
    BY <1>0, <2>1, <2>5 DEF KeyScoped, Searching
  <2>9. got.space = w
    BY <2>3
  <2>10. KeyScoped(r)'
    BY <2>1, <2>6, <2>7, <2>8, <2>9 DEF KeyScoped, At, Searching, Caller, Do, Got, SearchedSpace
  <2>11. req'[r].pc \in Searching
    BY <2>7 DEF Searching
  <2> QED BY <2>6, <2>10, <2>11, SearchGoes
<1>3. ASSUME QueryCandidates(r) PROVE ShowInv'
  <2>1. req[r].pc = "candidates"
    BY <1>3 DEF QueryCandidates, At
  <2>2. Turn(r, {"candidates"}, {"done", "authenticate", "hydrate"}) /\ db' = db
    BY <1>0, <1>3, SearchTurns
  <2>3. req'[r].do = req[r].do /\ req'[r].auth = req[r].auth /\ req'[r].pc \in {"done", "authenticate", "hydrate"}
    BY <2>2 DEF Turn
  <2>4. Got(r).space = SearchedSpace(Caller(r), Do(r))
        /\ (Caller(r).space # None => SearchedSpace(Caller(r), Do(r)) = Caller(r).space)
    BY <1>0, <2>1 DEF KeyScoped, Searching
  <2>5. PICK found \in Answers(BuildSearchFilter(r, Got(r).principals)) :
          \/ found = {} /\ EndPage(r, Got(r), FALSE)
          \/ found # {} /\ Becomes(r, [req[r] EXCEPT !.pc = "hydrate", !.got = Looking(r, found)])
    BY <1>3, CandidatesFound
  <2>6. \A d \in found : DocOK(d) /\ (Got(r).space # None => d.space = Got(r).space)
    <3>1. PICK docs : docs = BuildSearchFilter(r, Got(r).principals) /\ found \in Answers(docs)
      OBVIOUS
    <3>2. found \subseteq docs
      BY <3>1, AnswersAre
    <3> QED BY <3>1, <3>2 DEF BuildSearchFilter, ShowInv
  <2>7. \A d : DocOK(d) => DocOK(d)'
    BY <2>2, SameQuiet, QuietStays, DocStays
  <2>8. req'[r].pc = "hydrate" =>
          DOMAIN req'[r].got = HitFields /\ req'[r].got.found = found /\ req'[r].got.space = Got(r).space
    <3>1. CASE found = {}
      <4>1. EndPage(r, Got(r), FALSE)
        BY <2>5, <3>1
      <4>2. PICK e : e = [req[r] EXCEPT !.got = [space |-> Got(r).space, shown |-> Got(r).shown],
                                        !.pc = "done", !.answer = "ok"]
        OBVIOUS
      <4>3. req' = [req EXCEPT ![r] = e] /\ e.pc = "done"
        BY <1>0, <4>1, <4>2 DEF EndPage, Becomes, RequestShape, Fields
      <4> QED BY <1>0, <4>3
    <3>2. CASE found # {}
      <4>1. PICK got : got = Looking(r, found)
        OBVIOUS
      <4>2. Becomes(r, [req[r] EXCEPT !.pc = "hydrate", !.got = got])
        BY <2>5, <3>2, <4>1
      <4>3. req'[r].got = got
        BY <1>0, <4>2 DEF Becomes, RequestShape, Fields
      <4>4. DOMAIN got = HitFields /\ got.found = found /\ got.space = Got(r).space
        BY <4>1 DEF Looking, HitFields
      <4> QED BY <4>3, <4>4
    <3> QED BY <3>1, <3>2
  <2>9. KeyScoped(r)'
    BY <2>3, <2>4, <2>6, <2>7, <2>8 DEF KeyScoped, At, Searching, Caller, Do, Got, SearchedSpace
  <2>10. req'[r].pc \in Searching \cup {"authenticate", "done"}
    BY <2>3 DEF Searching
  <2> QED BY <2>2, <2>9, <2>10, SearchGoes
<1>4. ASSUME Hydrate(r) PROVE ShowInv'
  <2>1. req[r].pc = "hydrate"
    BY <1>4 DEF Hydrate, At
  <2>2. PICK d, hit : d \in Got(r).found /\
          Read(r, [Got(r) EXCEPT !.found = {o \in @ : <<o.kind, o.id>> # <<d.kind, d.id>>},
                     !.left = @ - 1, !.hits = IF hit THEN @ + 1 ELSE @,
                     !.shown = IF hit THEN @ \cup {<<d.kind, d.id>>} ELSE @], "hydrate")
    BY <1>4 DEF Hydrate
  <2>3. PICK got : got = [Got(r) EXCEPT !.found = {o \in @ : <<o.kind, o.id>> # <<d.kind, d.id>>},
                     !.left = @ - 1, !.hits = IF hit THEN @ + 1 ELSE @,
                     !.shown = IF hit THEN @ \cup {<<d.kind, d.id>>} ELSE @]
    OBVIOUS
  <2>4. Read(r, got, "hydrate")
    BY <2>2, <2>3
  <2>5. req[r].pc \in {"hydrate"} /\ "done" \notin {"hydrate"}
    BY <2>1
  <2>6. Turn(r, {"hydrate"}, {"hydrate"}) /\ db' = db /\ req'[r].got = got
    BY <1>0, <2>4, <2>5, ReadTurn
  <2>7. req'[r].pc = "hydrate" /\ req'[r].do = req[r].do /\ req'[r].auth = req[r].auth
    BY <2>6 DEF Turn
  <2>8. /\ Got(r).space = SearchedSpace(Caller(r), Do(r))
        /\ Caller(r).space # None => SearchedSpace(Caller(r), Do(r)) = Caller(r).space
        /\ DOMAIN Got(r) = HitFields
        /\ \A o \in Got(r).found : DocOK(o) /\ (Got(r).space # None => o.space = Got(r).space)
    BY <1>0, <2>1 DEF KeyScoped, Searching, At
  <2>9. DOMAIN got = HitFields /\ got.space = Got(r).space /\ got.found \subseteq Got(r).found
    BY <2>3, <2>8 DEF HitFields
  <2>10. \A o : DocOK(o) => DocOK(o)'
    BY <2>6, SameQuiet, QuietStays, DocStays
  <2>11. KeyScoped(r)'
    BY <2>6, <2>7, <2>8, <2>9, <2>10 DEF KeyScoped, At, Searching, Caller, Do, Got, SearchedSpace
  <2>12. req'[r].pc \in Searching
    BY <2>7 DEF Searching
  <2> QED BY <2>6, <2>11, <2>12, SearchGoes
<1>5. ASSUME FinishSearch(r) PROVE ShowInv'
  <2>1. Turn(r, {"hydrate"}, {"authenticate", "done"}) /\ db' = db
    BY <1>0, <1>5, SearchTurns
  <2>2. req'[r].pc \in {"authenticate", "done"}
    BY <2>1 DEF Turn
  <2>3. KeyScoped(r)'
    BY <2>2 DEF KeyScoped, At, Searching
  <2> QED BY <2>1, <2>2, <2>3, SearchGoes
<1> QED BY <1>1, <1>2, <1>3, <1>4, <1>5

-----------------------------------------------------------------------------
(***************************************************************************)
(* What the rest of the system does meanwhile.                             *)
(***************************************************************************)

\* No request steps, and no message comes.
LEMMA WorldShows ==
  ASSUME Inv, ShowInv, req' = req, Stays, EventsFit(db'), db'.message = db.message, db'.clock = db.clock,
         \A d \in index' : DocOK(d)'
  PROVE  ShowInv'
<1>1. ASSUME NEW q \in Request PROVE RequestShows(q)'
  <2>1. req'[q] = req[q] /\ RequestShows(q)
    BY DEF ShowInv
  <2> QED BY <2>1, OtherShows
<1>2. EventsFit(db)'
  BY DEF EventsFit, Fits, FeedFits
<1>3. TimesOK'
  <2>1. TimesApart(db')
    BY DEF ShowInv, TimesOK, TimesApart
  <2>2. ASSUME NEW r \in Request, req[r].pc = "insert message"
        PROVE  /\ req[r].got \in Nat /\ req[r].got <= db'.clock
               /\ \A m \in DOMAIN db'.message : db'.message[m].at # req[r].got
               /\ \A q \in Request : q # r /\ req[q].pc = "insert message" => req[r].got # req[q].got
    BY <2>2 DEF ShowInv, TimesOK, At, Got
  <2> QED BY <2>1, <2>2 DEF TimesOK, At, Got, TimesApart
<1> QED BY <1>1, <1>2, <1>3 DEF ShowInv

LEMMA ChurnShows ==
  ASSUME Inv, ShowInv, scene' = scene, Churn
  PROVE  ShowInv'
<1>1. PICK change \in churn : db' = Changed(change)
  BY DEF Churn
<1>2. change[1] \in {"expire", "end", "suspend", "leave"}
  BY ScenesAssumption DEF Inv, Here
<1>3. DOMAIN db = TableNames
  BY DEF Inv, IsTables
<1>4. PICK one, two : one = change[2] /\ two = change[3]
  OBVIOUS
<1>5. PICK member : member = <<one, two>>
  OBVIOUS
<1>6. Unshown(db, db')
  <2>1. CASE change[1] = "expire"
    <3>1. db' = [db EXCEPT !.challenge[one].expired = TRUE]
      BY <1>1, <1>4, <2>1 DEF Changed
    <3>2. Only(db, db', {"challenge"})
      BY <1>3, <3>1 DEF Only, TableNames
    <3> QED BY <3>2, UnshownOnly
  <2>2. CASE change[1] = "end"
    <3>1. db' = [db EXCEPT !.session[one].live = FALSE]
      BY <1>1, <1>4, <2>2 DEF Changed, RevokeAuthSession
    <3>2. Only(db, db', {"session"})
      BY <1>3, <3>1 DEF Only, TableNames
    <3> QED BY <3>2, UnshownOnly
  <2>3. CASE change[1] = "suspend"
    <3>1. db' = Suspend(one, two)
      BY <1>1, <1>4, <2>3 DEF Changed
    <3>2. db' = [db EXCEPT !.member[member] = "suspended",
                           !.seat = {s \in @ : s[2] # two \/ db.room[s[1]].space # one \/ db.room[s[1]].policy # "members"}]
      BY <1>5, <3>1 DEF Suspend
    <3>3. Only(db, db', {"member", "seat"})
      BY <1>3, <3>2 DEF Only, TableNames
    <3> QED BY <3>3, UnshownOnly
  <2>4. CASE change[1] = "leave"
    <3>1. db' = [db EXCEPT !.seat = @ \ {member}]
      BY <1>1, <1>4, <1>5, <2>4 DEF Changed, DeleteConversationParticipant
    <3>2. Only(db, db', {"seat"})
      BY <1>3, <3>1 DEF Only, TableNames
    <3> QED BY <3>2, UnshownOnly
  <2> QED BY <1>2, <2>1, <2>2, <2>3, <2>4
<1>7. Quiet /\ db'.clock = db.clock /\ req' = req /\ index' = index
  BY <1>6, UnshownQuiet DEF Churn
<1>8. Stays /\ EventsFit(db')
  BY <1>7, QuietStays, QuietEvents DEF ShowInv
<1>9. \A d \in index' : DocOK(d)'
  BY <1>7, <1>8, DocStays DEF ShowInv
<1>10. db'.message = db.message
  BY <1>7 DEF Quiet
<1> QED BY <1>7, <1>8, <1>9, <1>10, WorldShows

\* The greatest of a set of numbers that has one.
LEMMA NextNumber ==
  ASSUME NEW S, NEW n, n = Max0(S) + 1, Max0(S) \in Nat, \A e \in S : e \in Nat /\ e <= Max0(S)
  PROVE  n \notin S /\ n \in Nat /\ Max0(S \cup {n}) = n /\ \A e \in S \cup {n} : e \in Nat /\ e <= n
<1>1. PICK max : max = Max0(S)
  OBVIOUS
<1>2. n = max + 1 /\ max \in Nat /\ \A e \in S : e \in Nat /\ e <= max
  BY <1>1
<1>3. n \notin S /\ n \in Nat /\ \A e \in S \cup {n} : e \in Nat /\ e <= n
  BY <1>2
<1>4. S \cup {n} # {}
  OBVIOUS
<1>5. \A x \in S \cup {n} : (\A y \in S \cup {n} : y <= x) => x = n
  BY <1>3
<1>6. \A y \in S \cup {n} : y <= n
  BY <1>3
<1>7. (CHOOSE x \in S \cup {n} : \A y \in S \cup {n} : y <= x) = n
  BY <1>5, <1>6
<1>8. Max0(S \cup {n}) = n
  BY <1>4, <1>7 DEF Max0
<1> QED BY <1>3, <1>8

\* The projector: the event is in the feeds its internal event fits.
LEMMA ProjectShows ==
  ASSUME Inv, ShowInv, scene' = scene, index' = index, Project
  PROVE  ShowInv'
<1>1. DOMAIN db = TableNames /\ req' = req /\ EventsFit(db)
  BY DEF Inv, IsTables, Project, ShowInv
<1>2. PICK i \in db.told :
        db' = [Add(db, "event", Max0(DOMAIN db.event) + 1,
                   [space |-> i.space,
                    feeds |-> (IF i.kind = "workspace" THEN {} ELSE {<<i.kind, i.id>>})
                              \cup (IF i.space = None THEN {} ELSE {<<"workspace", i.space>>})])
               EXCEPT !.told = @ \ {i}]
  BY DEF Project
<1>3. PICK own : own = <<i.kind, i.id>>
  OBVIOUS
<1>4. PICK its : its = <<"workspace", i.space>>
  OBVIOUS
<1>5. PICK feeds : feeds = (IF i.kind = "workspace" THEN {} ELSE {own}) \cup (IF i.space = None THEN {} ELSE {its})
  OBVIOUS
<1>6. PICK row : row = [space |-> i.space, feeds |-> feeds]
  OBVIOUS
<1>7. PICK n : n = Max0(DOMAIN db.event) + 1
  OBVIOUS
<1>8. PICK d : d = Add(db, "event", n, row)
  OBVIOUS
<1>9. db' = [d EXCEPT !.told = @ \ {i}]
  BY <1>2, <1>3, <1>4, <1>5, <1>6, <1>7, <1>8
<1>10. AddsRow(db, d, "event", n, row)
  <2>1. "event" \in TableNames
    BY DEF TableNames
  <2> QED BY <1>1, <1>8, <2>1, AddOnly
<1>11. /\ DOMAIN db' = TableNames /\ db'.room = db.room /\ db'.message = db.message /\ db'.clock = db.clock
       /\ db'.told = db.told \ {i} /\ db'.event = d.event
  <2>1. DOMAIN d = TableNames /\ d.room = db.room /\ d.message = db.message /\ d.clock = db.clock /\ d.told = db.told
    BY <1>10 DEF AddsRow, Only, TableNames
  <2> QED BY <1>9, <2>1 DEF TableNames
<1>12. PICK S : S = DOMAIN db.event
  OBVIOUS
<1>13. n \notin S /\ n \in Nat /\ Max0(S \cup {n}) = n /\ \A e \in S \cup {n} : e \in Nat /\ e <= n
  <2>1. Max0(S) \in Nat /\ \A e \in S : e \in Nat /\ e <= Max0(S)
    BY <1>1, <1>12 DEF EventsFit
  <2> QED BY <1>7, <1>12, <2>1, NextNumber
<1>14. /\ DOMAIN db'.event = S \cup {n} /\ db'.event[n] = row
       /\ \A e \in S : db'.event[e] = db.event[e]
  BY <1>10, <1>11, <1>12, <1>13 DEF AddsRow
<1>15. Stays
  BY <1>11, <1>12, <1>14 DEF Stays
<1>16. \A j \in db'.told : Fits(j, db')
  BY <1>1, <1>11, <1>15, FitStays DEF EventsFit
<1>17. \A f \in row.feeds : FeedFits(f, row.space, db')
  <2>1. Fits(i, db')
    BY <1>1, <1>15, FitStays DEF EventsFit
  <2>2. own[1] = i.kind /\ own[2] = i.id /\ its[1] = "workspace" /\ its[2] = i.space
    BY <1>3, <1>4
  <2>3. i.kind # "workspace" => FeedFits(own, i.space, db')
    BY <2>1, <2>2 DEF Fits, FeedFits
  <2>4. FeedFits(its, i.space, db')
    BY <2>2 DEF FeedFits
  <2>5. row.space = i.space /\ row.feeds = feeds
    BY <1>6
  <2>6. \A f \in feeds : (f = own /\ i.kind # "workspace") \/ f = its
    BY <1>5
  <2> QED BY <2>3, <2>4, <2>5, <2>6
<1>18. \A e \in DOMAIN db'.event : \A f \in db'.event[e].feeds : FeedFits(f, db'.event[e].space, db')
  <2>1. ASSUME NEW e \in S, NEW f \in db'.event[e].feeds
        PROVE  FeedFits(f, db'.event[e].space, db')
    <3>1. db'.event[e] = db.event[e] /\ f \in db.event[e].feeds
      BY <1>14, <2>1
    <3>2. FeedFits(f, db.event[e].space, db)
      BY <1>1, <1>12, <3>1 DEF EventsFit
    <3> QED BY <1>15, <3>1, <3>2, FeedStays
  <2> QED BY <1>14, <1>17, <2>1
<1>19. EventsFit(db')
  BY <1>13, <1>14, <1>16, <1>18 DEF EventsFit
<1>20. \A o \in index' : DocOK(o)'
  BY <1>15, DocStays DEF ShowInv
<1> QED BY <1>1, <1>11, <1>15, <1>19, <1>20, WorldShows

\* What the indexer builds.
LEMMA BuiltOK ==
  ASSUME References(db), EventsFit(db), NEW kind \in DOMAIN Table, NEW id,
         NEW d \in BuildDocumentsForResource(kind, id)
  PROVE  DocOK(d)
<1>1. kind \in {"message", "conversation", "workspace", "user", "event"}
  BY DEF Table
<1>2. id \in DOMAIN db[Table[kind]]
  BY DEF BuildDocumentsForResource
<1>3. CASE kind = "message"
  <2>1. id \in DOMAIN db.message /\ d \in BuildMessageDocuments(id)
    BY <1>2, <1>3 DEF Table, BuildDocumentsForResource
  <2>2. PICK c, anchor : c = db.message[id].room /\ anchor = ConversationAccessAnchor(c)
    OBVIOUS
  <2>3. d = Doc("message", id, anchor, db.room[c].space, c)
    BY <2>1, <2>2 DEF BuildMessageDocuments
  <2>4. d.kind = "message" /\ d.id = id /\ d.space = db.room[c].space
    BY <2>3 DEF Doc
  <2> QED BY <1>3, <2>1, <2>2, <2>4 DEF DocOK
<1>4. CASE kind = "conversation"
  <2>1. id \in DOMAIN db.room /\ d \in BuildConversationDocuments(id)
    BY <1>2, <1>4 DEF Table, BuildDocumentsForResource
  <2>2. PICK anchor : anchor = ConversationAccessAnchor(id)
    OBVIOUS
  <2>3. d = Doc("conversation", id, anchor, db.room[id].space, id)
    BY <2>1, <2>2 DEF BuildConversationDocuments
  <2>4. d.kind = "conversation" /\ d.id = id /\ d.space = db.room[id].space
    BY <2>3 DEF Doc
  <2> QED BY <1>4, <2>1, <2>4 DEF DocOK
<1>5. CASE kind = "workspace"
  <2>1. d \in BuildWorkspaceDocuments(id)
    BY <1>2, <1>5 DEF Table, BuildDocumentsForResource
  <2>2. PICK anchor : anchor = <<"workspace", id>>
    OBVIOUS
  <2>3. d = Doc("workspace", id, anchor, id, None)
    BY <2>1, <2>2 DEF BuildWorkspaceDocuments
  <2>4. d.kind = "workspace" /\ d.id = id /\ d.space = id
    BY <2>3 DEF Doc
  <2> QED BY <1>5, <2>4 DEF DocOK
<1>6. CASE kind = "user"
  <2>1. d \in BuildUserDocuments(id)
    BY <1>2, <1>6 DEF Table, BuildDocumentsForResource
  <2>2. \/ \E anchor, w : d = Doc("user", id, anchor, w, None)
        \/ \E anchor, w : \E c \in MemberConversations(id, None) : d = Doc("user", id, anchor, w, c)
    BY <2>1 DEF BuildUserDocuments
  <2>3. d.kind = "user" /\ (d.room # None => d.room \in MemberConversations(id, None))
    BY <2>2 DEF Doc
  <2> QED BY <1>6, <2>3 DEF DocOK, MemberConversations
<1>7. CASE kind = "event"
  <2>1. id \in DOMAIN db.event /\ d \in BuildEventDocuments(id)
    BY <1>2, <1>7 DEF Table, BuildDocumentsForResource
  <2>2. PICK f \in db.event[id].feeds : d = EventAnchor(id, f)
    BY <2>1 DEF BuildEventDocuments
  <2>3. FeedFits(f, db.event[id].space, db)
    BY <2>1 DEF EventsFit
  <2>4. d.kind = "event" /\ d.id = id /\ (d.space # None => d.space = db.event[id].space)
    <3>1. CASE f[1] = "user"
      <4>1. d = Doc("event", id, f, None, None)
        BY <2>2, <3>1 DEF EventAnchor
      <4> QED BY <4>1 DEF Doc
    <3>2. CASE f[1] = "workspace"
      <4>1. d = Doc("event", id, f, f[2], None)
        BY <2>2, <3>2 DEF EventAnchor
      <4> QED BY <2>3, <3>2, <4>1 DEF Doc, FeedFits
    <3>3. CASE f[1] = "conversation"
      <4>1. PICK a, c : a = ConversationAccessAnchor(f[2]) /\ c = IF a = f THEN f[2] ELSE None
        OBVIOUS
      <4>2. d = Doc("event", id, a, db.room[f[2]].space, c)
        BY <2>2, <3>3, <4>1 DEF EventAnchor
      <4> QED BY <2>3, <3>3, <4>2 DEF Doc, FeedFits
    <3> QED BY <2>3, <3>1, <3>2, <3>3 DEF FeedFits
  <2> QED BY <1>7, <2>1, <2>4 DEF DocOK
<1> QED BY <1>1, <1>3, <1>4, <1>5, <1>6, <1>7

LEMMA ResourceKind ==
  ASSUME NEW x \in Resources
  PROVE  x[1] \in DOMAIN Table
BY DEF Resources, Things

LEMMA ReindexShows ==
  ASSUME Inv, ShowInv, req' = req, db' = db, NEW kinds, Reindex(kinds)
  PROVE  ShowInv'
<1>1. PICK x \in Resources :
        index' = BuildDocumentsForResource(x[1], x[2]) \cup {d \in index : <<d.kind, d.id>> # x}
  BY DEF Reindex
<1>2. Quiet
  BY SameQuiet
<1>3. Stays /\ EventsFit(db')
  BY <1>2, QuietStays, QuietEvents DEF ShowInv
<1>4. \A d : DocOK(d) => DocOK(d)'
  BY <1>3, DocStays
<1>5. PICK kind, id : kind = x[1] /\ id = x[2]
  OBVIOUS
<1>6. kind \in DOMAIN Table
  BY <1>5, ResourceKind
<1>7. \A d \in BuildDocumentsForResource(kind, id) : DocOK(d)
  BY <1>6, BuiltOK DEF Inv, ShowInv
<1>8. \A d \in index' : DocOK(d)
  BY <1>1, <1>5, <1>7 DEF ShowInv
<1> QED BY <1>3, <1>4, <1>8, WorldShows

LEMMA InitShows == Init => ShowInv
<1>1. SUFFICES ASSUME Init PROVE ShowInv
  OBVIOUS
<1>2. /\ scene \in DOMAIN Scenes /\ db = Scenes[scene].db /\ req = [r \in Request |-> New]
      /\ index = IF Here.searched THEN FreshIndex ELSE {}
  BY <1>1 DEF Init, Here
<1>3. References(db) /\ EventsFit(db) /\ TimesApart(db)
  BY <1>2, ScenesAssumption
<1>4. ASSUME NEW r \in Request
      PROVE  req[r].pc = "new" /\ req[r].got = Nothing /\ req[r].do = None
  BY <1>2 DEF New
<1>5. "new" \notin Searching \cup Elsewhere \cup ReadOps
  BY Zenon DEF Searching, Elsewhere, AsideSteps, ReadOps
<1>6. \A r \in Request : PlaceOK(r)
  BY <1>4, <1>5 DEF PlaceOK, At, Got
<1>7. \A r \in Request : KeyScoped(r)
  BY <1>4, <1>5 DEF KeyScoped, At, Searching
<1>8. \A r \in Request : PagesOK(r)
  BY <1>4 DEF PagesOK, Do
<1>9. TimesOK
  BY <1>3, <1>4 DEF TimesOK, At
<1>10. \A d \in index : DocOK(d)
  <2>1. ASSUME NEW d \in FreshIndex PROVE DocOK(d)
    <3>1. PICK x \in Resources : d \in BuildDocumentsForResource(x[1], x[2])
      BY <2>1 DEF FreshIndex
    <3>2. PICK kind, id : kind = x[1] /\ id = x[2]
      OBVIOUS
    <3>3. kind \in DOMAIN Table
      BY <3>2, ResourceKind
    <3>4. d \in BuildDocumentsForResource(kind, id)
      BY <3>1, <3>2
    <3> QED BY <1>3, <3>3, <3>4, BuiltOK
  <2> QED BY <1>2, <2>1
<1> QED BY <1>3, <1>6, <1>7, <1>8, <1>9, <1>10 DEF ShowInv, RequestShows

LEMMA ServeShows ==
  ASSUME Inv, ShowInv, NEW r \in Request, Serve(r)
  PROVE  ShowInv'
<1>1. index' = index
  BY DEF Serve
<1>2. CASE AccessStep(r)
  BY <1>1, <1>2, AsideLooksShow, AsideWritesShow DEF AccessStep
<1>3. CASE MessagingStep(r)
  BY <1>1, <1>3, AsideLooksShow, AsideWritesShow, RewritersShow, CheckPostShows, CreateMessageShows,
     CreateWorkspaceShows, LoadMessageShows, ReadShows, CheckListShows, ListMessagesShows, ListsShow
     DEF MessagingStep
<1>4. CASE SearchStep(r)
  BY <1>1, <1>4, SearchShows DEF SearchStep
<1>5. CASE Send(r)
  BY <1>1, <1>5, SendShows
<1>6. CASE Authenticate(r)
  BY <1>1, <1>6, AuthenticateShows
<1> QED BY <1>2, <1>3, <1>4, <1>5, <1>6 DEF Serve, Step

LEMMA NextShows == Inv /\ ShowInv /\ [Next]_vars => ShowInv'
<1>1. SUFFICES ASSUME Inv, ShowInv, [Next]_vars PROVE ShowInv'
  OBVIOUS
<1>2. ASSUME NEW r \in Request, Serve(r) PROVE ShowInv'
  BY <1>1, <1>2, ServeShows
<1>3. CASE UNCHANGED <<db, req, index>>
  <2>1. Stays /\ EventsFit(db')
    BY <1>1, <1>3, SameQuiet, QuietStays, QuietEvents DEF ShowInv
  <2>2. \A d \in index' : DocOK(d)'
    BY <1>1, <1>3, <2>1, DocStays DEF ShowInv
  <2> QED BY <1>1, <1>3, <2>1, <2>2, WorldShows
<1>4. CASE Others
  <2>1. scene' = scene
    BY <1>4 DEF Others
  <2>2. CASE Churn
    BY <1>1, <2>1, <2>2, ChurnShows
  <2>3. CASE Project /\ index' = index
    BY <1>1, <2>1, <2>3, ProjectShows
  <2>4. CASE Reindex(Here.reindexed) /\ db' = db /\ req' = req
    BY <1>1, <2>4, ReindexShows
  <2>5. ASSUME index' = index, NEW r \in Request, Crash(r) PROVE ShowInv'
    BY <1>1, <2>5, CrashShows
  <2> QED BY <1>4, <2>2, <2>3, <2>4, <2>5 DEF Others
<1>5. UNCHANGED vars => UNCHANGED <<db, req, index>>
  BY DEF vars
<1> QED BY <1>1, <1>2, <1>3, <1>4, <1>5 DEF Next

\* What lists and searches rest on holds in every state of the service.
THEOREM ServiceShowInv == Spec => []ShowInv
BY InitInv, NextInv, InitShows, NextShows, PTL DEF Spec

\* Who goes through the pages of a conversation has seen, at the end, every
\* message there was when the first page was asked for, whoever posts
\* meanwhile: a new message moves others to later places in the order, never to
\* earlier ones, and none is taken away (routes_messaging.go,
\* handleListMessages).
THEOREM MessagePagesMissNothing == Spec => []PagesMissNothing
<1>1. ASSUME Inv, ShowInv, NEW r \in Request, Listing(r, "listMessages")
      PROVE  Things("message", Got(r).start) \subseteq Got(r).shown
  <2>1. At(r, "done") /\ req[r].answer = "ok" /\ Do(r).op = "listMessages" /\ ~At(r, "new")
    BY <1>1 DEF Listing, At
  <2>2. PlaceOK(r) /\ PagesOK(r) /\ RequestOK(r)
    BY <1>1 DEF ShowInv, RequestShows, Inv
  <2>3. Do(r) # None /\ Do(r).op \in ListOps
    BY <2>1, <2>2 DEF RequestOK, IsCommand, ListOps
  <2>4. DOMAIN Got(r) = ListFields
    BY <2>1, <2>2, <2>3 DEF PlaceOK
  <2>5. Got(r) # Nothing
    BY <2>4 DEF ListFields, Nothing
  <2>6. \A m \in Got(r).start : <<"message", m>> \in Got(r).shown
    BY <2>1, <2>2, <2>3, <2>5 DEF PagesOK
  <2> QED BY <2>6 DEF Things
<1>2. Inv /\ ShowInv => PagesMissNothing
  BY <1>1 DEF PagesMissNothing
<1> QED BY <1>2, ServiceInv, ServiceShowInv, PTL

-----------------------------------------------------------------------------
(***************************************************************************)
(* Whatever is shown is visible at that moment.                            *)
(***************************************************************************)

\* The requests that show something of what the property is about.
ShowingOps == {"search", "listEvents"} \cup ReadOps

LEMMA ShownBy ==
  ASSUME NEW e, NEW x \in Shown(e)
  PROVE  e.do.op \in ShowingOps /\ e.pc \notin ReadOps /\ x \in e.got.shown
BY DEF Shown, ShowingOps

\* Nothing more is shown when what was shown is kept.
LEMMA NothingMore ==
  ASSUME Inv, ShowInv, NEW r \in Request, req'[r].do = req[r].do, req'[r].got.shown \subseteq Got(r).shown
  PROVE  Shown(req'[r]) \subseteq Shown(req[r])
<1>1. SUFFICES ASSUME NEW x \in Shown(req'[r]) PROVE x \in Shown(req[r])
  OBVIOUS
<1>2. PICK e : e = req'[r]
  OBVIOUS
<1>3. e.do.op \in ShowingOps /\ x \in e.got.shown
  BY <1>1, <1>2, ShownBy
<1>4. x \in Got(r).shown /\ Do(r).op \in ShowingOps
  BY <1>2, <1>3 DEF Do
<1>5. CASE req[r].pc \in ReadOps
  <2>1. Do(r).op \in ReadOps
    BY <1>5, AsidePlaces, FirstStep
  <2>2. Got(r) = Nothing
    BY <1>5, <2>1 DEF ShowInv, RequestShows, PlaceOK
  <2> QED BY <1>4, <2>2 DEF Nothing
<1>6. CASE req[r].pc \notin ReadOps
  BY <1>4, <1>6 DEF Shown, ShowingOps, Do, Got
<1> QED BY <1>5, <1>6

\* The requests that list and search nothing show nothing.
AsidePlace(r) == req[r].pc \in Elsewhere \/ req[r].pc \in AsideOps

LEMMA AsideShowsNothing ==
  ASSUME Inv, ShowInv, NEW r \in Request, AsidePlace(r), req'[r].do = req[r].do
  PROVE  Shown(req'[r]) = {}
<1>1. Do(r).op \notin ReadOps \cup ListOps \cup {"search"}
  <2>1. CASE req[r].pc \in Elsewhere
    BY <2>1 DEF ShowInv, RequestShows, PlaceOK
  <2>2. CASE req[r].pc \in AsideOps
    <3>1. req[r].pc = Do(r).op
      BY <2>2, AsidePlaces, FirstStep
    <3> QED BY <2>2, <3>1, AsidePlaces
  <2> QED BY <2>1, <2>2 DEF AsidePlace
<1>2. Do(r).op \notin ShowingOps
  BY <1>1 DEF ShowingOps, ListOps
<1>3. PICK e : e = req'[r]
  OBVIOUS
<1>4. e.do.op \notin ShowingOps
  BY <1>2, <1>3 DEF Do
<1> QED BY <1>3, <1>4, ShownBy

LEMMA AccessAside ==
  ASSUME Inv, NEW r \in Request, AccessStep(r)
  PROVE  AsidePlace(r) /\ req'[r].do = req[r].do
<1>0. RequestShape(r)
  BY ShapeOK
<1>1. ASSUME NEW place, \E to : Turn(r, {place}, to), place \in Elsewhere \cup AsideOps
      PROVE  AsidePlace(r) /\ req'[r].do = req[r].do
  BY <1>1 DEF Turn, AsidePlace
<1>1a. ASSUME NEW from, NEW to, Turn(r, from, to), from \subseteq Elsewhere \cup AsideOps
      PROVE  AsidePlace(r) /\ req'[r].do = req[r].do
  BY <1>1a DEF Turn, AsidePlace
<1>2. CASE StartEmailLogin(r) \/ SendEmailLoginCode(r) \/ FindChallenge(r) \/ LockChallenge(r)
           \/ ResolveUserByEmail(r) \/ VerifyEmail(r)
  <2>1. CASE StartEmailLogin(r)
    <3>1. \E to : Turn(r, {"startEmail"}, to)
      BY <1>0, <2>1, SignInTurns
    <3>2. "startEmail" \in Elsewhere \cup AsideOps
      BY AsideMembers DEF Elsewhere
    <3> QED BY <1>1, <3>1, <3>2
  <2>2. CASE SendEmailLoginCode(r)
    <3>1. \E to : Turn(r, {"send code"}, to)
      BY <1>0, <2>2, SignInTurns
    <3>2. "send code" \in Elsewhere \cup AsideOps
      BY AsideMembers DEF Elsewhere
    <3> QED BY <1>1, <3>1, <3>2
  <2>3. CASE FindChallenge(r)
    <3>1. \E to : Turn(r, {"verifyEmail"}, to)
      BY <1>0, <2>3, SignInTurns
    <3>2. "verifyEmail" \in Elsewhere \cup AsideOps
      BY AsideMembers DEF Elsewhere
    <3> QED BY <1>1, <3>1, <3>2
  <2>4. CASE LockChallenge(r)
    <3>1. \E to : Turn(r, {"lock challenge"}, to)
      BY <1>0, <2>4, SignInTurns
    <3>2. "lock challenge" \in Elsewhere \cup AsideOps
      BY AsideMembers DEF Elsewhere
    <3> QED BY <1>1, <3>1, <3>2
  <2>5. CASE ResolveUserByEmail(r)
    <3>1. \E to : Turn(r, {"resolve user"}, to)
      BY <1>0, <2>5, SignInTurns
    <3>2. "resolve user" \in Elsewhere \cup AsideOps
      BY AsideMembers DEF Elsewhere
    <3> QED BY <1>1, <3>1, <3>2
  <2>6. CASE VerifyEmail(r)
    <3>1. \E to : Turn(r, {"sign in"}, to)
      BY <1>0, <2>6, SignInTurns
    <3>2. "sign in" \in Elsewhere \cup AsideOps
      BY AsideMembers DEF Elsewhere
    <3> QED BY <1>1, <3>1, <3>2
  <2> QED BY <1>2, <2>1, <2>2, <2>3, <2>4, <2>5, <2>6
<1>3. CASE OAuthStart(r) \/ OAuthCallback(r) \/ Exchange(r) \/ DeleteState(r)
           \/ FindAccount(r) \/ FindUserOfAccount(r) \/ EnterWithAccount(r)
  <2>1. CASE OAuthStart(r)
    <3>1. \E to : Turn(r, {"startOAuth"}, to)
      BY <1>0, <2>1, SignInTurns
    <3>2. "startOAuth" \in Elsewhere \cup AsideOps
      BY AsideMembers DEF Elsewhere
    <3> QED BY <1>1, <3>1, <3>2
  <2>2. CASE OAuthCallback(r)
    <3>1. \E to : Turn(r, {"callback"}, to)
      BY <1>0, <2>2, SignInTurns
    <3>2. "callback" \in Elsewhere \cup AsideOps
      BY AsideMembers DEF Elsewhere
    <3> QED BY <1>1, <3>1, <3>2
  <2>3. CASE Exchange(r)
    <3>1. \E to : Turn(r, {"exchange"}, to)
      BY <1>0, <2>3, SignInTurns
    <3>2. "exchange" \in Elsewhere \cup AsideOps
      BY AsideMembers DEF Elsewhere
    <3> QED BY <1>1, <3>1, <3>2
  <2>4. CASE DeleteState(r)
    <3>1. \E to : Turn(r, {"delete state"}, to)
      BY <1>0, <2>4, SignInTurns
    <3>2. "delete state" \in Elsewhere \cup AsideOps
      BY AsideMembers DEF Elsewhere
    <3> QED BY <1>1, <3>1, <3>2
  <2>5. CASE FindAccount(r)
    <3>1. \E to : Turn(r, {"find account"}, to)
      BY <1>0, <2>5, SignInTurns
    <3>2. "find account" \in Elsewhere \cup AsideOps
      BY AsideMembers DEF Elsewhere
    <3> QED BY <1>1, <3>1, <3>2
  <2>6. CASE FindUserOfAccount(r)
    <3>1. \E to : Turn(r, {"account's email"}, to)
      BY <1>0, <2>6, SignInTurns
    <3>2. "account's email" \in Elsewhere \cup AsideOps
      BY AsideMembers DEF Elsewhere
    <3> QED BY <1>1, <3>1, <3>2
  <2>7. CASE EnterWithAccount(r)
    <3>1. \E to : Turn(r, {"enter"}, to)
      BY <1>0, <2>7, SignInTurns
    <3>2. "enter" \in Elsewhere \cup AsideOps
      BY AsideMembers DEF Elsewhere
    <3> QED BY <1>1, <3>1, <3>2
  <2> QED BY <1>3, <2>1, <2>2, <2>3, <2>4, <2>5, <2>6, <2>7
<1>4. CASE DeleteCurrentSession(r) \/ PatchMeProfile(r) \/ CreateKey(r) \/ FindKey(r) \/ DeleteKey(r)
           \/ PostAgent(r) \/ LoadAgent(r)
  <2>1. /\ {"deleteSession"} \subseteq AsideOps /\ {"patchMe"} \subseteq AsideOps
        /\ {"createKey"} \subseteq AsideOps /\ {"deleteKey"} \subseteq AsideOps
        /\ {"revoke key"} \subseteq AsideSteps /\ {"createAgent"} \subseteq AsideOps
        /\ AgentOp \subseteq AsideOps
    BY AsideMembers DEF AgentOp
  <2> QED BY <1>0, <1>1a, <1>4, <2>1, AccountTurns DEF Elsewhere
<1>5. CASE PatchAgent(r) \/ SelectToken(r) \/ RevokeToken(r) \/ GetOrCreateAgentKey(r) \/ RotateAgentKey(r)
           \/ NewToken(r)
  <2>1. /\ {"update agent"} \subseteq AsideSteps /\ {"select token"} \subseteq AsideSteps
        /\ {"revoke token"} \subseteq AsideSteps /\ {"lock token"} \subseteq AsideSteps
        /\ {"lock old token"} \subseteq AsideSteps /\ {"new token"} \subseteq AsideSteps
    BY AsideMembers
  <2> QED BY <1>0, <1>1a, <1>5, <2>1, AccountTurns DEF Elsewhere
<1> QED BY <1>2, <1>3, <1>4, <1>5 DEF AccessStep

\* The steps of messaging that neither read for the caller nor list.
Lists(r) == Show(r) \/ CheckList(r) \/ ListMessages(r) \/ ListConversations(r) \/ ListEvents(r)

LEMMA MessagingAside ==
  ASSUME Inv, NEW r \in Request, MessagingStep(r), ~Lists(r)
  PROVE  AsidePlace(r) /\ req'[r].do = req[r].do
<1>0. RequestShape(r)
  BY ShapeOK
<1>1. ASSUME NEW place, \E to : Turn(r, {place}, to), place \in Elsewhere \cup AsideOps
      PROVE  AsidePlace(r) /\ req'[r].do = req[r].do
  BY <1>1 DEF Turn, AsidePlace
<1>1a. ASSUME NEW from, NEW to, Turn(r, from, to), from \subseteq Elsewhere \cup AsideOps
      PROVE  AsidePlace(r) /\ req'[r].do = req[r].do
  BY <1>1a DEF Turn, AsidePlace
<1>2. CASE LoadConversation(r) \/ PatchConversation(r) \/ CheckPost(r) \/ CreateMessageTx(r) \/ LoadMessage(r)
  <2>1. /\ {"patchRoom"} \subseteq AsideOps /\ {"update room"} \subseteq AsideSteps
        /\ {"post"} \subseteq AsideOps /\ {"insert message"} \subseteq AsideSteps
        /\ {"editMessage", "deleteMessage"} \subseteq AsideOps
    BY AsideMembers
  <2> QED BY <1>0, <1>1a, <1>2, <2>1, MessageTurns DEF Elsewhere
<1>3. CASE PatchMessage(r) \/ DeleteMessage(r) \/ CheckRead(r) \/ PutReadState(r) \/ CreateWorkspaceTx(r)
           \/ PatchWorkspace(r)
  <2>1. CASE PatchMessage(r)
    <3>1. \E to : Turn(r, {"edit"}, to)
      BY <1>0, <2>1, MessageTurns
    <3>2. "edit" \in Elsewhere \cup AsideOps
      BY AsideMembers DEF Elsewhere
    <3> QED BY <1>1, <3>1, <3>2
  <2>2. CASE DeleteMessage(r)
    <3>1. \E to : Turn(r, {"delete"}, to)
      BY <1>0, <2>2, MessageTurns
    <3>2. "delete" \in Elsewhere \cup AsideOps
      BY AsideMembers DEF Elsewhere
    <3> QED BY <1>1, <3>1, <3>2
  <2>3. CASE CheckRead(r)
    <3>1. \E to : Turn(r, {"putRead"}, to)
      BY <1>0, <2>3, MessageTurns
    <3>2. "putRead" \in Elsewhere \cup AsideOps
      BY AsideMembers DEF Elsewhere
    <3> QED BY <1>1, <3>1, <3>2
  <2>4. CASE PutReadState(r)
    <3>1. \E to : Turn(r, {"mark read"}, to)
      BY <1>0, <2>4, MessageTurns
    <3>2. "mark read" \in Elsewhere \cup AsideOps
      BY AsideMembers DEF Elsewhere
    <3> QED BY <1>1, <3>1, <3>2
  <2>5. CASE CreateWorkspaceTx(r)
    <3>1. \E to : Turn(r, {"createWorkspace"}, to)
      BY <1>0, <2>5, MessageTurns
    <3>2. "createWorkspace" \in Elsewhere \cup AsideOps
      BY AsideMembers DEF Elsewhere
    <3> QED BY <1>1, <3>1, <3>2
  <2>6. CASE PatchWorkspace(r)
    <3>1. \E to : Turn(r, {"patchWorkspace"}, to)
      BY <1>0, <2>6, MessageTurns
    <3>2. "patchWorkspace" \in Elsewhere \cup AsideOps
      BY AsideMembers DEF Elsewhere
    <3> QED BY <1>1, <3>1, <3>2
  <2> QED BY <1>3, <2>1, <2>2, <2>3, <2>4, <2>5, <2>6
<1>4. CASE CheckSubscription(r) \/ CreateSubscription(r) \/ SelectSubscription(r) \/ CheckSubscriptionKey(r)
           \/ RefuseSubscriptionKey(r) \/ PatchSubscription(r) \/ DeleteSubscription(r)
  <2>1. /\ {"createSub"} \subseteq AsideOps /\ {"insert sub"} \subseteq AsideSteps
        /\ {"patchSub", "deleteSub"} \subseteq AsideOps /\ {"check sub"} \subseteq AsideSteps
        /\ {"write sub"} \subseteq AsideSteps
    BY AsideMembers
  <2> QED BY <1>0, <1>1a, <1>4, <2>1, ReadTurns DEF Elsewhere
<1> QED BY <1>2, <1>3, <1>4 DEF MessagingStep, Lists

\* What a step newly shows may be seen.
ShowsVisible(r) == \A x \in Shown(req'[r]) \ Shown(req[r]) : MaySee(Caller(r), x)

\* The reads: what the query returns, by the check before it.
LEMMA ReadingVisible ==
  ASSUME References(db), NEW auth, NEW do, do.op \in ReadOps, NEW S \in Reading(auth, do), NEW x \in S
  PROVE  MaySee(auth, x)
<1>1. ASSUME NEW kind, NEW ids, x \in Things(kind, ids)
      PROVE  x[1] = kind /\ x[2] \in ids
  BY <1>1 DEF Things
<1>2. CASE do.op = "getMe"
  <2>1. S = Things("user", {auth.user}) \cup Things("workspace", {s[1] : s \in ListMembershipSummaries(auth.user)})
        /\ EnsureGlobal(auth)
    BY <1>2 DEF Reading, GetMe
  <2>2. CASE x \in Things("user", {auth.user})
    <3>1. x[1] = "user" /\ x[2] = auth.user
      BY <1>1, <2>2
    <3> QED BY <3>1 DEF MaySee
  <2>3. CASE x \in Things("workspace", {s[1] : s \in ListMembershipSummaries(auth.user)})
    <3>1. x[1] = "workspace" /\ x[2] \in {s[1] : s \in ListMembershipSummaries(auth.user)}
      BY <1>1, <2>3
    <3>2. x[2] \in ListActiveWorkspacesByUser(auth.user)
      BY <3>1 DEF ListMembershipSummaries
    <3>3. IsActive(x[2], auth.user) /\ InScope(auth, x[2])
      BY <2>1, <3>2 DEF ListActiveWorkspacesByUser, EnsureGlobal, InScope
    <3> QED BY <3>1, <3>3 DEF MaySee
  <2> QED BY <2>1, <2>2, <2>3
<1>3. CASE do.op = "listKeys"
  <2>1. S = Things("key", ListAPIKeysByUser(auth.user))
    BY <1>3 DEF Reading, ListAPIKeys
  <2>2. x[1] = "key" /\ x[2] \in ListAPIKeysByUser(auth.user)
    BY <1>1, <2>1
  <2> QED BY <2>2 DEF MaySee, ListAPIKeysByUser
<1>4. CASE do.op = "listWorkspaces"
  <2>1. \/ auth.space = None /\ S = Things("workspace", ListActiveWorkspacesByUser(auth.user))
        \/ EnsureWorkspaceActiveMember(auth, auth.space) /\ S = Things("workspace", GetWorkspace(auth.space))
    BY <1>4 DEF Reading, ListWorkspaces
  <2>2. CASE auth.space = None /\ S = Things("workspace", ListActiveWorkspacesByUser(auth.user))
    <3>1. x[1] = "workspace" /\ x[2] \in ListActiveWorkspacesByUser(auth.user)
      BY <1>1, <2>2
    <3>2. IsActive(x[2], auth.user) /\ InScope(auth, x[2])
      BY <2>2, <3>1 DEF ListActiveWorkspacesByUser, InScope
    <3> QED BY <3>1, <3>2 DEF MaySee
  <2>3. CASE EnsureWorkspaceActiveMember(auth, auth.space) /\ S = Things("workspace", GetWorkspace(auth.space))
    <3>1. x[1] = "workspace" /\ x[2] \in GetWorkspace(auth.space)
      BY <1>1, <2>3
    <3>2. x[2] = auth.space
      BY <3>1 DEF GetWorkspace
    <3> QED BY <2>3, <3>1, <3>2 DEF MaySee, EnsureWorkspaceActiveMember
  <2> QED BY <2>1, <2>2, <2>3
<1>5. CASE do.op = "getWorkspace"
  <2>1. EnsureWorkspaceActiveMember(auth, do.space) /\ S = Things("workspace", GetWorkspace(do.space))
    BY <1>5 DEF Reading, ShowWorkspace
  <2>2. x[1] = "workspace" /\ x[2] \in GetWorkspace(do.space)
    BY <1>1, <2>1
  <2>3. x[2] = do.space
    BY <2>2 DEF GetWorkspace
  <2> QED BY <2>1, <2>2, <2>3 DEF MaySee, EnsureWorkspaceActiveMember
<1>6. CASE do.op = "listMembers"
  <2>1. EnsureWorkspaceActiveMember(auth, do.space) /\ S = Things("user", ListWorkspaceMembers(do.space))
    BY <1>6 DEF Reading, ListMembers
  <2>2. x[1] = "user" /\ x[2] \in ListWorkspaceMembers(do.space)
    BY <1>1, <2>1
  <2>3. PICK w, u : w = do.space /\ u = x[2]
    OBVIOUS
  <2>4. <<w, u>> \in DOMAIN db.member /\ IsActive(w, auth.user)
    BY <2>1, <2>2, <2>3 DEF ListWorkspaceMembers, EnsureWorkspaceActiveMember
  <2>5. w \in DOMAIN db.space
    BY <2>4 DEF References
  <2>6. ShareWorkspace(auth.user, u)
    BY <2>4, <2>5 DEF ShareWorkspace
  <2> QED BY <2>2, <2>3, <2>6 DEF MaySee
<1>7. CASE do.op = "listAgents"
  <2>1. S = Things("user", ListAgentsManagedByUser(auth.user))
    BY <1>7 DEF Reading, ListAgents
  <2>2. x[1] = "user" /\ x[2] \in ListAgentsManagedByUser(auth.user)
    BY <1>1, <2>1
  <2> QED BY <2>2 DEF MaySee
<1>8. CASE do.op = "getAgent"
  <2>1. S = Things("user", {do.agent}) /\ \E row \in GetAgent(do.agent) : EnsureAgentManager(auth, row)
    BY <1>8 DEF Reading, ShowAgent
  <2>2. x[1] = "user" /\ x[2] = do.agent
    BY <1>1, <2>1
  <2>3. do.agent \in DOMAIN db.agent /\ EnsureAgentManager(auth, db.agent[do.agent])
    BY <2>1 DEF GetAgent
  <2>4. do.agent \in ListAgentsManagedByUser(auth.user)
    BY <2>3 DEF EnsureAgentManager, EnsureWorkspaceAdmin, ListAgentsManagedByUser
  <2> QED BY <2>2, <2>4 DEF MaySee
<1>9. CASE do.op = "getConversation"
  <2>1. S = Things("conversation", {do.room}) /\ EnsureConversationAccess(auth, do.room)
    BY <1>9 DEF Reading, ShowConversation
  <2>2. x[1] = "conversation" /\ x[2] = do.room
    BY <1>1, <2>1
  <2>3. PICK c : c = do.room
    OBVIOUS
  <2>4. InScope(auth, db.room[c].space) /\ ConversationVisible(c, auth.user)
    BY <2>1, <2>3 DEF EnsureConversationAccess, EnsureWorkspaceActiveMember, GetConversation,
       ConversationVisible, InScope
  <2> QED BY <2>2, <2>3, <2>4 DEF MaySee
<1>10. CASE do.op = "listParticipants"
  <2>1. /\ EnsureConversationAccess(auth, do.room) /\ db.room[do.room].policy = "members"
        /\ S = Things("user", ListConversationParticipants(do.room))
    BY <1>10 DEF Reading, ListParticipants
  <2>2. x[1] = "user" /\ x[2] \in ListConversationParticipants(do.room)
    BY <1>1, <2>1
  <2>3. PICK c, u : c = do.room /\ u = x[2]
    OBVIOUS
  <2>4. c \in DOMAIN db.room /\ <<c, auth.user>> \in db.seat
    BY <2>1, <2>3 DEF EnsureConversationAccess, GetConversation, IsConversationParticipant
  <2>5. <<c, u>> \in db.seat
    BY <2>2, <2>3 DEF ListConversationParticipants
  <2>6. ShareConversation(auth.user, u)
    BY <2>1, <2>3, <2>4, <2>5 DEF ShareConversation
  <2> QED BY <2>2, <2>3, <2>6 DEF MaySee
<1>11. CASE do.op = "listSubs"
  <2>1. S = Things("subscription", ListEventSubscriptionsByOwner(auth.user, auth.space))
    BY <1>11 DEF Reading, ListSubscriptions
  <2>2. x[1] = "subscription" /\ x[2] \in ListEventSubscriptionsByOwner(auth.user, auth.space)
    BY <1>1, <2>1
  <2>3. PICK id : id = x[2]
    OBVIOUS
  <2>4. db.sub[id].owner = auth.user /\ InScope(auth, db.sub[id].space)
    BY <2>2, <2>3 DEF ListEventSubscriptionsByOwner, InScope
  <2> QED BY <2>2, <2>3, <2>4 DEF MaySee
<1>12. do.op \in {"getMe", "listKeys", "listWorkspaces", "getWorkspace", "listMembers", "listAgents",
                  "getAgent", "getConversation", "listParticipants", "listSubs"}
  BY DEF ReadOps
<1> QED BY <1>2, <1>3, <1>4, <1>5, <1>6, <1>7, <1>8, <1>9, <1>10, <1>11, <1>12

LEMMA ShowVisible ==
  ASSUME Inv, ShowInv, NEW r \in Request, Show(r)
  PROVE  ShowsVisible(r)
<1>0. RequestShape(r) /\ DOMAIN req = Request /\ References(db)
  BY ShapeOK DEF Inv
<1>1. req[r].pc \in ReadOps
  BY DEF Show
<1>2. Do(r).op \in ReadOps
  BY <1>1, AsidePlaces, FirstStep
<1>3. CASE Refuse(r)
  <2>1. req'[r].got = req[r].got /\ req'[r].do = req[r].do
    BY <1>0, <1>1, <1>3, RefuseTurn DEF Turn
  <2>2. Shown(req'[r]) \subseteq Shown(req[r])
    BY <2>1, NothingMore DEF Got
  <2> QED BY <2>2 DEF ShowsVisible
<1>4. ASSUME NEW S \in Reading(Caller(r), Do(r)),
             Becomes(r, [req[r] EXCEPT !.pc = "done", !.answer = "ok", !.got = [shown |-> S]])
      PROVE  ShowsVisible(r)
  <2>1. PICK e : e = [req[r] EXCEPT !.pc = "done", !.answer = "ok", !.got = [shown |-> S]]
    OBVIOUS
  <2>2. e.got.shown = S
    BY <1>0, <2>1 DEF RequestShape, Fields
  <2>3. req'[r] = e
    BY <1>0, <1>4, <2>1 DEF Becomes
  <2>4. Shown(req'[r]) \subseteq S
    BY <2>2, <2>3 DEF Shown
  <2>5. \A x \in S : MaySee(Caller(r), x)
    BY <1>0, <1>2, <1>4, ReadingVisible
  <2> QED BY <2>4, <2>5 DEF ShowsVisible
<1> QED BY <1>3, <1>4 DEF Show

\* A page of the feed: of the workspace, with a key of one.
LEMMA ListEventsVisible ==
  ASSUME Inv, ShowInv, NEW r \in Request, ListEvents(r)
  PROVE  ShowsVisible(r)
<1>1. At(r, "page") /\ Do(r).op = "listEvents"
  BY DEF ListEvents
<1>2. PICK rows : rows = EventsAfter(r, Got(r).cursor)
  OBVIOUS
<1>3. PICK page : page = {e \in rows : Cardinality({x \in rows : x < e}) < Limit}
  OBVIOUS
<1>4. PICK cursor, more : Paged(r, Things("event", page), cursor, more)
  BY <1>2, <1>3 DEF ListEvents
<1>5. req'[r].do = req[r].do /\ req'[r].got.shown = Got(r).shown \cup Things("event", page)
  BY <1>1, <1>4, PagedGot
<1>6. req[r].pc \notin ReadOps
  BY <1>1 DEF At, ReadOps
<1>7. Shown(req[r]) = Got(r).shown
  BY <1>1, <1>6 DEF Shown, Do, Got
<1>8. Shown(req'[r]) \subseteq req'[r].got.shown
  BY ShownBy
<1>9. ASSUME NEW e \in page PROVE MaySee(Caller(r), <<"event", e>>)
  <2>1. e \in DOMAIN db.event /\ ExternalEventVisible(e, Caller(r).user)
        /\ (Do(r).space # None => db.event[e].space = Do(r).space)
    BY <1>2, <1>3, <1>9 DEF EventsAfter
  <2>2. KeyScoped(r)
    BY DEF ShowInv, RequestShows
  <2>3. InScope(Caller(r), db.event[e].space)
    BY <1>1, <2>1, <2>2 DEF KeyScoped, InScope
  <2>4. PICK x : x = <<"event", e>>
    OBVIOUS
  <2>5. x[1] = "event" /\ x[2] = e
    BY <2>4
  <2>6. MaySee(Caller(r), x)
    BY <2>1, <2>3, <2>5 DEF MaySee
  <2> QED BY <2>4, <2>6
<1>10. \A x \in Things("event", page) : MaySee(Caller(r), x)
  BY <1>9 DEF Things
<1> QED BY <1>5, <1>7, <1>8, <1>10 DEF ShowsVisible

\* A conversation a search may enter is visible.
LEMMA RoomSeen ==
  ASSUME NEW c, NEW u, NEW allowGlobal, RoomVisible(c, u, allowGlobal)
  PROVE  c \in DOMAIN db.room /\ ConversationVisible(c, u)
BY DEF RoomVisible, WorkspaceVisible, GetConversation, ConversationVisible

\* A candidate that is looked up in the tables and found visible.
LEMMA HitVisible ==
  ASSUME References(db), NEW auth, NEW d, DocOK(d), HydrateCandidate(auth, d),
         auth.space # None => d.space = auth.space
  PROVE  MaySee(auth, <<d.kind, d.id>>)
<1>1. PICK x : x = <<d.kind, d.id>>
  OBVIOUS
<1>2. x[1] = d.kind /\ x[2] = d.id
  BY <1>1
<1>3. d.kind \in {"message", "conversation", "workspace", "user", "event"}
  BY DEF DocOK, Table
<1>4. CASE d.kind = "message"
  <2>1. HydrateMessage(auth, d)
    BY <1>4 DEF HydrateCandidate
  <2>2. PICK c : c = db.message[d.id].room
    OBVIOUS
  <2>3. ConversationVisible(c, auth.user)
    BY <2>1, <2>2, RoomSeen DEF HydrateMessage
  <2>4. InScope(auth, db.room[c].space)
    BY <1>4, <2>2 DEF DocOK, InScope
  <2>5. MaySee(auth, x)
    BY <1>2, <1>4, <2>2, <2>3, <2>4 DEF MaySee
  <2> QED BY <1>1, <2>5
<1>5. CASE d.kind = "conversation"
  <2>1. ConversationVisible(d.id, auth.user)
    BY <1>5, RoomSeen DEF HydrateCandidate, HydrateConversation
  <2>2. InScope(auth, db.room[d.id].space)
    BY <1>5 DEF DocOK, InScope
  <2>3. MaySee(auth, x)
    BY <1>2, <1>5, <2>1, <2>2 DEF MaySee
  <2> QED BY <1>1, <2>3
<1>6. CASE d.kind = "workspace"
  <2>1. IsActive(d.id, auth.user)
    BY <1>6 DEF HydrateCandidate, HydrateWorkspace, WorkspaceVisible
  <2>2. InScope(auth, d.id)
    BY <1>6 DEF DocOK, InScope
  <2>3. MaySee(auth, x)
    BY <1>2, <1>6, <2>1, <2>2 DEF MaySee
  <2> QED BY <1>1, <2>3
<1>7. CASE d.kind = "user"
  <2>1. UserVisible(auth.user, d.id, d.space, d.room)
    BY <1>7 DEF HydrateCandidate, HydrateUser
  <2>2. PICK u, v, w, c : u = auth.user /\ v = d.id /\ w = d.space /\ c = d.room
    OBVIOUS
  <2>3. CASE u = v
    <3>1. MaySee(auth, x)
      BY <1>2, <1>7, <2>2, <2>3 DEF MaySee
    <3> QED BY <1>1, <3>1
  <2>4. CASE c # None /\ {<<c, u>>, <<c, v>>} \subseteq db.seat
    <3>1. c \in DOMAIN db.room /\ db.room[c].policy = "members"
      BY <1>7, <2>2, <2>4 DEF DocOK
    <3>2. ShareConversation(u, v)
      BY <2>4, <3>1 DEF ShareConversation
    <3>3. MaySee(auth, x)
      BY <1>2, <1>7, <2>2, <3>2 DEF MaySee
    <3> QED BY <1>1, <3>3
  <2>5. CASE IsActive(w, u) /\ IsActive(w, v)
    <3>1. <<w, v>> \in DOMAIN db.member
      BY <2>5 DEF IsActive, Membership
    <3>2. w \in DOMAIN db.space
      BY <3>1 DEF References
    <3>3. ShareWorkspace(u, v)
      BY <2>5, <3>1, <3>2 DEF ShareWorkspace
    <3>4. MaySee(auth, x)
      BY <1>2, <1>7, <2>2, <3>3 DEF MaySee
    <3> QED BY <1>1, <3>4
  <2> QED BY <2>1, <2>2, <2>3, <2>4, <2>5 DEF UserVisible
<1>8. CASE d.kind = "event"
  <2>1. ExternalEventVisible(d.id, auth.user)
    BY <1>8 DEF HydrateCandidate, HydrateEvent
  <2>2. InScope(auth, db.event[d.id].space)
    BY <1>8 DEF DocOK, InScope
  <2>3. MaySee(auth, x)
    BY <1>2, <1>8, <2>1, <2>2 DEF MaySee
  <2> QED BY <1>1, <2>3
<1> QED BY <1>3, <1>4, <1>5, <1>6, <1>7, <1>8

LEMMA HydrateVisible ==
  ASSUME Inv, ShowInv, NEW r \in Request, Hydrate(r)
  PROVE  ShowsVisible(r)
<1>0. RequestShape(r) /\ KeyScoped(r) /\ PlaceOK(r) /\ References(db)
  BY ShapeOK DEF ShowInv, RequestShows, Inv
<1>1. req[r].pc = "hydrate"
  BY DEF Hydrate, At
<1>2. PICK d \in Got(r).found :
        LET hit == HydrateCandidate(Caller(r), d)
        IN Read(r, [Got(r) EXCEPT !.found = {o \in @ : <<o.kind, o.id>> # <<d.kind, d.id>>},
                      !.left = @ - 1, !.hits = IF hit THEN @ + 1 ELSE @,
                      !.shown = IF hit THEN @ \cup {<<d.kind, d.id>>} ELSE @], "hydrate")
  BY DEF Hydrate
<1>3. PICK x : x = <<d.kind, d.id>>
  OBVIOUS
<1>4. PICK hit : hit = HydrateCandidate(Caller(r), d)
  OBVIOUS
<1>5. PICK got : got = [Got(r) EXCEPT !.found = {o \in @ : <<o.kind, o.id>> # x},
                      !.left = @ - 1, !.hits = IF hit THEN @ + 1 ELSE @,
                      !.shown = IF hit THEN @ \cup {x} ELSE @]
  OBVIOUS
<1>6. Read(r, got, "hydrate")
  BY <1>2, <1>3, <1>4, <1>5
<1>7. req[r].pc \in {"hydrate"} /\ "done" \notin {"hydrate"}
  BY <1>1
<1>8. req'[r].got = got /\ req'[r].do = req[r].do
  <2>1. Turn(r, {"hydrate"}, {"hydrate"}) /\ req'[r].got = got
    BY <1>0, <1>6, <1>7, ReadTurn
  <2> QED BY <2>1 DEF Turn
<1>9. /\ Got(r).space = SearchedSpace(Caller(r), Do(r))
      /\ Caller(r).space # None => SearchedSpace(Caller(r), Do(r)) = Caller(r).space
      /\ DOMAIN Got(r) = HitFields
      /\ \A o \in Got(r).found : DocOK(o) /\ (Got(r).space # None => o.space = Got(r).space)
  BY <1>0, <1>1 DEF KeyScoped, Searching, At
<1>10. got.shown = IF hit THEN Got(r).shown \cup {x} ELSE Got(r).shown
  BY <1>5, <1>9 DEF HitFields
<1>11. hit => MaySee(Caller(r), x)
  <2>1. DocOK(d) /\ (Caller(r).space # None => d.space = Caller(r).space)
    BY <1>9
  <2> QED BY <1>0, <1>3, <1>4, <2>1, HitVisible
<1>12. Shown(req[r]) = Got(r).shown
  <2>1. Do(r).op = "search"
    BY <1>0, <1>1 DEF PlaceOK, Searching
  <2>2. req[r].pc \notin ReadOps
    BY <1>1 DEF ReadOps
  <2> QED BY <2>1, <2>2 DEF Shown, Do, Got
<1>13. Shown(req'[r]) \subseteq req'[r].got.shown
  BY ShownBy
<1> QED BY <1>8, <1>10, <1>11, <1>12, <1>13 DEF ShowsVisible

\* The other steps of lists and searches show nothing more.
LEMMA ListsVisible ==
  ASSUME Inv, ShowInv, NEW r \in Request, Lists(r), req'[r].pc \in {"hydrate", "done", "authenticate"}
  PROVE  ShowsVisible(r)
<1>0. RequestShape(r)
  BY ShapeOK
<1>1. CASE Show(r)
  BY <1>1, ShowVisible
<1>2. CASE CheckList(r)
  <2>1. req[r].pc \in ListOps /\ "done" \notin ListOps
    BY <1>2 DEF CheckList, ListOps
  <2>2. CASE Refuse(r)
    <3>1. req'[r].got = req[r].got /\ req'[r].do = req[r].do
      BY <1>0, <2>1, <2>2, RefuseTurn DEF Turn
    <3>2. Shown(req'[r]) \subseteq Shown(req[r])
      BY <3>1, NothingMore DEF Got
    <3> QED BY <3>2 DEF ShowsVisible
  <2>3. ASSUME NEW got, Read(r, got, "page") PROVE FALSE
    <3>1. Turn(r, ListOps, {"page"})
      BY <1>0, <2>1, <2>3, ReadTurn
    <3> QED BY <3>1 DEF Turn
  <2> QED BY <1>2, <2>2, <2>3 DEF CheckList
<1>3. CASE ListMessages(r) \/ ListConversations(r)
  <2>1. Do(r).op \in {"listMessages", "listConversations"}
    BY <1>3 DEF ListMessages, ListConversations
  <2>2. req'[r].do = req[r].do
    BY <1>0, <1>3, ReadTurns DEF Turn
  <2>3. Do(r).op \notin ShowingOps
    BY <2>1 DEF ShowingOps, ReadOps
  <2>4. PICK e : e = req'[r]
    OBVIOUS
  <2>5. e.do.op \notin ShowingOps
    BY <2>2, <2>3, <2>4 DEF Do
  <2>6. Shown(req'[r]) = {}
    BY <2>4, <2>5, ShownBy
  <2> QED BY <2>6 DEF ShowsVisible
<1>4. CASE ListEvents(r)
  BY <1>4, ListEventsVisible
<1> QED BY <1>1, <1>2, <1>3, <1>4 DEF Lists

LEMMA SearchVisible ==
  ASSUME Inv, ShowInv, NEW r \in Request, SearchStep(r), req'[r].pc \in {"hydrate", "done", "authenticate"}
  PROVE  ShowsVisible(r)
<1>0. RequestShape(r) /\ DOMAIN req = Request
  BY ShapeOK DEF Inv
<1>1. ASSUME req'[r].do = req[r].do, req'[r].got.shown = Got(r).shown PROVE ShowsVisible(r)
  <2>1. Shown(req'[r]) \subseteq Shown(req[r])
    BY <1>1, NothingMore
  <2> QED BY <2>1 DEF ShowsVisible
<1>2. CASE StartSearch(r)
  <2>1. req[r].pc \in {"search"} /\ "done" \notin {"search"} /\ "principals" # "done"
    BY <1>2 DEF StartSearch, At
  <2>2. CASE Refuse(r)
    <3>1. req'[r].got = req[r].got /\ req'[r].do = req[r].do
      BY <1>0, <2>1, <2>2, RefuseTurn DEF Turn
    <3> QED BY <1>1, <3>1 DEF Got
  <2>3. ASSUME NEW got, Read(r, got, "principals") PROVE FALSE
    <3>1. Turn(r, {"search"}, {"principals"})
      BY <1>0, <2>1, <2>3, ReadTurn
    <3> QED BY <3>1 DEF Turn
  <2> QED BY <1>2, <2>2, <2>3 DEF StartSearch
<1>3. CASE ReadPrincipals(r)
  <2>1. req[r].pc \in {"principals"} /\ "done" \notin {"principals"} /\ "candidates" # "done"
    BY <1>3 DEF ReadPrincipals, At
  <2>2. PICK got : Read(r, got, "candidates")
    BY <1>3 DEF ReadPrincipals
  <2>3. Turn(r, {"principals"}, {"candidates"})
    BY <1>0, <2>1, <2>2, ReadTurn
  <2>4. FALSE
    BY <2>3 DEF Turn
  <2> QED BY <2>4
<1>4. ASSUME NEW more, EndPage(r, Got(r), more) PROVE req'[r].got.shown = Got(r).shown
  <2>1. PICK step, answer : step = (IF more THEN "authenticate" ELSE "done")
                            /\ answer = (IF more THEN req[r].answer ELSE "ok")
    OBVIOUS
  <2>2. PICK e : e = [req[r] EXCEPT !.got = [space |-> Got(r).space, shown |-> Got(r).shown],
                                    !.pc = step, !.answer = answer]
    OBVIOUS
  <2>3. req' = [req EXCEPT ![r] = e]
    BY <1>4, <2>1, <2>2 DEF EndPage, Becomes
  <2>4. e.got.shown = Got(r).shown
    BY <1>0, <2>2 DEF RequestShape, Fields
  <2> QED BY <1>0, <2>3, <2>4
<1>5. CASE QueryCandidates(r)
  <2>1. req'[r].do = req[r].do
    BY <1>0, <1>5, SearchTurns DEF Turn
  <2>2. PICK found : \/ found = {} /\ EndPage(r, Got(r), FALSE)
                     \/ found # {} /\ Becomes(r, [req[r] EXCEPT !.pc = "hydrate", !.got = Looking(r, found)])
    BY <1>5, CandidatesFound
  <2>3. req'[r].got.shown = Got(r).shown
    <3>1. CASE found = {}
      <4>1. EndPage(r, Got(r), FALSE)
        BY <2>2, <3>1
      <4> QED BY <1>4, <4>1
    <3>2. CASE found # {}
      <4>1. PICK got : got = Looking(r, found)
        OBVIOUS
      <4>2. Becomes(r, [req[r] EXCEPT !.pc = "hydrate", !.got = got])
        BY <2>2, <3>2, <4>1
      <4>3. req'[r].got = got
        BY <1>0, <4>2 DEF Becomes, RequestShape, Fields
      <4>4. got.shown = Got(r).shown
        BY <4>1 DEF Looking
      <4> QED BY <4>3, <4>4
    <3> QED BY <3>1, <3>2
  <2> QED BY <1>1, <2>1, <2>3
<1>6. CASE Hydrate(r)
  BY <1>6, HydrateVisible
<1>7. CASE FinishSearch(r)
  <2>1. req'[r].do = req[r].do
    BY <1>0, <1>7, SearchTurns DEF Turn
  <2>2. req'[r].got.shown = Got(r).shown
    BY <1>4, <1>7 DEF FinishSearch
  <2> QED BY <1>1, <2>1, <2>2
<1> QED BY <1>2, <1>3, <1>5, <1>6, <1>7 DEF SearchStep

LEMMA StepVisible ==
  ASSUME Inv, ShowInv, NEW r \in Request, Step(r), req'[r].pc \in {"hydrate", "done", "authenticate"}
  PROVE  ShowsVisible(r)
<1>0. RequestShape(r) /\ DOMAIN req = Request
  BY ShapeOK DEF Inv
<1>1. CASE AccessStep(r) \/ (MessagingStep(r) /\ ~Lists(r))
  <2>1. AsidePlace(r) /\ req'[r].do = req[r].do
    BY <1>1, AccessAside, MessagingAside
  <2>2. Shown(req'[r]) = {}
    BY <2>1, AsideShowsNothing
  <2> QED BY <2>2 DEF ShowsVisible
<1>2. CASE Lists(r)
  BY <1>2, ListsVisible
<1>3. CASE SearchStep(r)
  BY <1>3, SearchVisible
<1>4. CASE Send(r)
  <2>1. PICK do, step : Becomes(r, [New EXCEPT !.do = do, !.pc = step])
    BY <1>4 DEF Send
  <2>2. PICK e : e = [New EXCEPT !.do = do, !.pc = step]
    OBVIOUS
  <2>3. e.got = Nothing
    BY <2>2 DEF New
  <2>4. req'[r] = e
    BY <1>0, <2>1, <2>2 DEF Becomes
  <2>5. Shown(req'[r]) = {}
    BY <2>3, <2>4, ShownBy DEF Nothing
  <2> QED BY <2>5 DEF ShowsVisible
<1>5. CASE Authenticate(r)
  <2>1. req'[r].got = req[r].got /\ req'[r].do = req[r].do
    <3>1. CASE Answer(r, "refused")
      <4>1. PICK from : from = {req[r].pc}
        OBVIOUS
      <4>2. req[r].pc \in from /\ "refused" \in {"ok", "refused", "error"}
        BY <4>1
      <4> QED BY <1>0, <3>1, <4>2, AnswerTurn DEF Turn
    <3>2. ASSUME NEW auth, Becomes(r, [req[r] EXCEPT !.auth = auth, !.pc = Do(r).op])
          PROVE  req'[r].got = req[r].got /\ req'[r].do = req[r].do
      BY <1>0, <3>2 DEF Becomes, RequestShape, Fields
    <3> QED BY <1>5, <3>1, <3>2 DEF Authenticate
  <2>2. Shown(req'[r]) \subseteq Shown(req[r])
    BY <2>1, NothingMore DEF Got
  <2> QED BY <2>2 DEF ShowsVisible
<1> QED BY <1>1, <1>2, <1>3, <1>4, <1>5 DEF Step, MessagingStep, Lists

\* Whatever a read, the feed or a search shows is visible to the caller at
\* that moment and in the scope of its key, though memberships end during the
\* request and the index is behind: each check is a condition of the query
\* that shows the row, and a candidate of a search is looked up again
\* (internal/search, hydrateCandidate; routes_core.go; routes_messaging.go,
\* handleListEvents).
THEOREM OnlyVisibleIsShown == Spec => ShownIsVisible
<1>1. ASSUME Inv, ShowInv, [Next]_vars, NEW r \in Request, req'[r] # req[r],
             req'[r].pc \in {"hydrate", "done", "authenticate"}
      PROVE  ShowsVisible(r)
  <2>0. DOMAIN req = Request
    BY <1>1 DEF Inv
  <2>1. ASSUME NEW q \in Request, Serve(q) PROVE ShowsVisible(r)
    <3>1. req' = [req EXCEPT ![q] = req'[q]]
      BY <1>1, <2>1, OwnTurn DEF Serve
    <3>2. q = r
      BY <1>1, <2>0, <3>1
    <3> QED BY <1>1, <2>1, <3>2, StepVisible DEF Serve
  <2>2. ASSUME NEW q \in Request, Crash(q) PROVE ShowsVisible(r)
    <3>1. RequestShape(q)
      BY <1>1, ShapeOK
    <3>2. PICK from : from = {req[q].pc}
      OBVIOUS
    <3>3. req[q].pc \in from /\ (Refuse(q) \/ Fails(q))
      BY <2>2, <3>2 DEF Crash
    <3>4. Turn(q, from, {"done"}) /\ req'[q].got = req[q].got
      BY <3>1, <3>3, RefuseTurn
    <3>5. req' = [req EXCEPT ![q] = req'[q]] /\ req'[q].do = req[q].do
      BY <3>4 DEF Turn
    <3>6. q = r
      BY <1>1, <2>0, <3>5
    <3>7. Shown(req'[r]) \subseteq Shown(req[r])
      BY <1>1, <3>4, <3>5, <3>6, NothingMore DEF Got
    <3> QED BY <3>7 DEF ShowsVisible
  <2>3. req' # req
    BY <1>1
  <2> QED BY <1>1, <2>1, <2>2, <2>3 DEF Next, Others, Churn, Project, vars
<1>2. Inv /\ ShowInv /\ [Next]_vars =>
        [\A r \in Request : Do(r) # None /\ req'[r] # req[r] /\ req'[r].pc \in {"hydrate", "done", "authenticate"}
           => \A x \in Shown(req'[r]) \ Shown(req[r]) : MaySee(Caller(r), x)]_vars
  BY <1>1 DEF ShowsVisible
<1> QED BY <1>2, ServiceInv, ServiceShowInv, PTL DEF Spec, ShownIsVisible

=============================================================================
