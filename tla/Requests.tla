------------------------------ MODULE Requests ------------------------------
(***************************************************************************)
(* A request to the API: it arrives with a credential, is authenticated,   *)
(* and its handler reads, checks, and writes in one transaction.  Several  *)
(* are in progress; each statement sees what is committed when it runs,    *)
(* and a statement that needs a row another transaction has locked waits.  *)
(* The writes of a transaction take effect together when it commits; rows  *)
(* are locked before that where the handler reads them for update.         *)
(***************************************************************************)
EXTENDS Tables

CONSTANTS
  Request,   \* bound: the requests that are sent
  Scenes,    \* bound: by name, what each may ask and what the tables hold then
  Pool       \* the connections of the pool

\* As many transactions that read on a second connection as there are
\* connections would wait for each other for ever.
ASSUME PoolAssumption == Pool \in Nat /\ Pool > Cardinality(Request)

VARIABLES
  scene,   \* the name of one of Scenes
  req      \* [Request -> a request: its command, step, caller and locals]

\* shown: what a client has been shown, over all pages of a list or a search
Nothing == [shown |-> {}]
New == [do |-> None, pc |-> "new", auth |-> None, tx |-> FALSE, locks |-> {},
        got |-> Nothing, answer |-> None]

At(r, step) == req[r].pc = step
Do(r) == req[r].do
Caller(r) == req[r].auth
Got(r) == req[r].got
Answered == {r \in Request : At(r, "done")}

Becomes(r, e) == req' = [req EXCEPT ![r] = e]
Free(r, row) == \A q \in Request \ {r} : row \notin req[q].locks
Connection == Cardinality({q \in Request : req[q].tx}) < Pool

\* a read outside a transaction, and the step it leads to
Read(r, got, step) ==
  /\ Connection
  /\ Becomes(r, [req[r] EXCEPT !.got = got, !.pc = step])
  /\ UNCHANGED db

\* Mutant: a transaction that is rolled back leaves its locks.
AnswerKeepsLocks(r, a) == Becomes(r, [req[r] EXCEPT !.pc = "done", !.answer = a, !.tx = FALSE])
Answer(r, a) == Becomes(r, [req[r] EXCEPT !.pc = "done", !.answer = a, !.tx = FALSE, !.locks = {}])

Refuse(r) == Answer(r, "refused") /\ UNCHANGED db
Fails(r) == Answer(r, "error") /\ UNCHANGED db

Begun(r) == req[r].tx \/ Connection
\* a statement of the transaction that locks rows
Locking(r, rows, got, step) ==
  /\ Begun(r)
  /\ \A row \in rows : Free(r, row)
  /\ Becomes(r, [req[r] EXCEPT !.tx = TRUE, !.locks = @ \cup rows, !.got = got, !.pc = step])
  /\ UNCHANGED db
\* the last statements and the commit
Commit(r, tables) == Begun(r) /\ db' = tables /\ Answer(r, "ok")

Crash(r) == req[r].pc \notin {"new", "done"} /\ Fails(r)

-----------------------------------------------------------------------------
(* Who is calling, and what the caller may do.                             *)

Unauthenticated == {"startEmail", "verifyEmail", "startOAuth", "callback"}

Send(r) ==
  /\ At(r, "new")
  /\ \E do \in Scenes[scene].asks[r] :
       Becomes(r, [New EXCEPT !.do = do,
                              !.pc = IF do.op \in Unauthenticated THEN do.op ELSE "authenticate"])
  /\ UNCHANGED db

\* A session, a user's key or an agent's key: three queries in turn.
AuthenticateRequest(credential) ==
  GetSessionAuth(credential) \cup GetAPIKeyAuth(credential) \cup GetAgentAPIKeyAuth(credential)

Authenticate(r) ==
  /\ At(r, "authenticate") /\ Connection
  /\ LET found == AuthenticateRequest(Do(r).as)
     IN \/ found = {} /\ Answer(r, "refused")
        \/ \E auth \in found : Becomes(r, [req[r] EXCEPT !.auth = auth, !.pc = Do(r).op])
  /\ UNCHANGED db

InScope(auth, w) == auth.space \in {None, w}
EnsureWorkspaceActiveMember(auth, w) == InScope(auth, w) /\ IsActive(w, auth.user)
EnsureWorkspaceAdmin(auth, w) == InScope(auth, w) /\ Membership(w, auth.user) \in {"admin", "owner"}
EnsureGlobal(auth) == auth.space = None
EnsureHumanActor(auth) == GetUser(auth.user).kind = "human"
EnsureHumanGlobal(auth) == EnsureGlobal(auth) /\ EnsureHumanActor(auth)
EnsureAgentSafeWrite(auth) == EnsureHumanActor(auth) \/ auth.mode = "safe_write"
EnsureAgentManager(auth, agent) ==
  /\ EnsureHumanGlobal(auth)
  /\ \/ agent.owner = auth.user
     \/ agent.space # None /\ EnsureWorkspaceAdmin(auth, agent.space)

EnsureConversationAccess(auth, c) == \E row \in GetConversation(c) :
  /\ auth.space # None => row.space = auth.space
  /\ IF row.space = None THEN row.policy = "members" /\ IsConversationParticipant(c, auth.user)
     ELSE /\ EnsureWorkspaceActiveMember(auth, row.space)
          /\ row.policy = "workspace" \/ IsConversationParticipant(c, auth.user)
=============================================================================
