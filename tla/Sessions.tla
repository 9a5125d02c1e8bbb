------------------------------ MODULE Sessions ------------------------------
(* Sessions of signed-in devices: httpapi/sessions.go and the account       *)
(* checks of auth.go.  A session is a row of refresh_sessions that changes  *)
(* its token at every refresh.  Creating one is a transaction that first    *)
(* withdraws the sessions beyond the limit, without a lock on the account,  *)
(* and then inserts; refreshing one locks its row.                          *)
EXTENDS Naturals, FiniteSets

CONSTANTS
    Accounts,     \* account ids: a phone that signs up again gets a new one
    Sessions,     \* rows of refresh_sessions
    Handlers,     \* requests the API is working on
    NoAccount, NoSession,
    MaxActive,    \* maxActiveUserSessions
    MaxTokens     \* tokens of one session (bound)

ASSUME SessionsAssumption ==
    /\ NoAccount \notin Accounts /\ NoSession \notin Sessions
    /\ IsFiniteSet(Handlers)
    /\ {MaxActive, MaxTokens} \subseteq Nat \ {0}

VARIABLES
    accounts, \* the accounts there are
    active,   \* sessions neither revoked nor expired
    newer,    \* pairs of active sessions, the later used one first
    owner,    \* user_id of a session
    token,    \* which token a session's token_hash is of, counted from 1
    handler   \* the requests in flight

sessionVars == <<accounts, active, newer, owner, token, handler>>
sessionTables == <<accounts, active, newer, owner, token>>

NoHandler == [step |-> "idle", user |-> NoAccount, session |-> NoSession, token |-> 0, drop |-> {}]

ActiveOf(u) == {s \in active : owner[s] = u}
\* Which unused element an INSERT takes makes no difference.
FreshSession == CHOOSE s \in Sessions : token[s] = 0
NewerThan(s, u) == {t \in ActiveOf(u) : <<t, s>> \in newer}

\* Variant: OFFSET MaxActive.
BeyondWholeLimit(u) ==
    {s \in ActiveOf(u) : Cardinality(NewerThan(s, u)) >= MaxActive}

\* ORDER BY COALESCE(last_used_at, created_at) DESC OFFSET MaxActive - 1
BeyondLimit(u) ==
    {s \in ActiveOf(u) : Cardinality(NewerThan(s, u)) + 1 >= MaxActive}

\* The row locks a request's transaction holds.
LockedRows(r) == IF handler[r].step = "rotating" THEN {handler[r].session}
                 ELSE IF handler[r].step = "revoking" THEN handler[r].drop ELSE {}
RowsFree(S) == \A r \in Handlers : LockedRows(r) \cap S = {}

HandlerBegins(r, task) == handler[r] = NoHandler /\ handler' = [handler EXCEPT ![r] = task]
HandlerEnds(r) == handler' = [handler EXCEPT ![r] = NoHandler]

\* The order of the sessions that are left without S, and with s used last.
OrderWithout(S) == {e \in newer : e[1] \notin S /\ e[2] \notin S}
OrderWithLast(S, s) == OrderWithout(S \cup {s}) \cup ({s} \X (active \ (S \cup {s})))

Deactivate(S) == active' = active \ S /\ newer' = OrderWithout(S)

SessionsInit ==
    /\ accounts = Accounts
    /\ active = {} /\ newer = {}
    /\ owner = [s \in Sessions |-> NoAccount]
    /\ token = [s \in Sessions |-> 0]
    /\ handler = [r \in Handlers |-> NoHandler]

-----------------------------------------------------------------------------
(* CreateSession, behind requireAuth *)

\* An access token of an account names it for good; requireActiveAccount asks
\* whether it is still there.  Its deletion asks the same of its own token.
Authenticated(u) == u \in accounts
DeletionAuthenticated(u) == u \in accounts

\* The UPDATE ranks the account's sessions.
RankSessions(r, u) ==
    /\ Authenticated(u)
    /\ HandlerBegins(r, [NoHandler EXCEPT !.step = "ranked", !.user = u, !.drop = BeyondLimit(u)])
    /\ UNCHANGED sessionTables

\* It waits for the rows it revokes, and holds them until the commit.
RevokeOldest(r) ==
    /\ handler[r].step = "ranked" /\ RowsFree(handler[r].drop)
    /\ handler' = [handler EXCEPT ![r].step = "revoking"]
    /\ UNCHANGED sessionTables

\* Without the account the INSERT fails on its foreign key (see AbortSession).
InsertSession(r) ==
    /\ handler[r].step = "revoking" /\ handler[r].user \in accounts
    /\ \E s \in Sessions : token[s] = 0
    /\ active' = (active \ handler[r].drop) \cup {FreshSession}
    /\ newer' = OrderWithLast(handler[r].drop, FreshSession)
    /\ owner' = [owner EXCEPT ![FreshSession] = handler[r].user]
    /\ token' = [token EXCEPT ![FreshSession] = 1]
    /\ HandlerEnds(r)
    /\ UNCHANGED accounts

-----------------------------------------------------------------------------
(* RefreshSession and LogoutSession, with any token a session ever had *)

\* Variant: a SELECT without FOR UPDATE, which does not wait for another refresh.
SelectUnlocked(r, s, t) ==
    /\ s \in active /\ token[s] = t
    /\ HandlerBegins(r, [NoHandler EXCEPT !.step = "rotating", !.session = s, !.token = t])
    /\ UNCHANGED sessionTables

\* SELECT ... FOR UPDATE by token_hash; no row is a 401.
SelectSession(r, s, t) ==
    /\ s \in active /\ token[s] = t /\ RowsFree({s})
    /\ HandlerBegins(r, [NoHandler EXCEPT !.step = "rotating", !.session = s, !.token = t])
    /\ UNCHANGED sessionTables

\* Variant: the session is listed at its old place as well as at its new one.
RotateTwice(r) ==
    LET s == handler[r].session
    IN /\ handler[r].step = "rotating" /\ token[s] < MaxTokens
       /\ token' = [token EXCEPT ![s] = @ + 1]
       /\ newer' = newer \cup OrderWithLast({}, s)
       /\ HandlerEnds(r)
       /\ UNCHANGED <<accounts, active, owner>>

RotateToken(r) ==
    LET s == handler[r].session
    IN /\ handler[r].step = "rotating" /\ token[s] < MaxTokens
       /\ token' = [token EXCEPT ![s] = @ + 1]
       /\ newer' = OrderWithLast({}, s)
       /\ HandlerEnds(r)
       /\ UNCHANGED <<accounts, active, owner>>

\* One UPDATE by token_hash, which waits for the row; its failure is ignored
\* and an unknown token changes nothing: the answer is "logged_out" all the same.
LogoutSession(s, t) ==
    /\ s \in active /\ token[s] = t /\ RowsFree({s})
    /\ Deactivate({s})
    /\ UNCHANGED <<accounts, owner, token, handler>>

-----------------------------------------------------------------------------
(* Accounts, failures and time *)

\* DELETE FROM users cascades to the sessions, once nobody holds their rows.
DeleteAccount(u) ==
    /\ DeletionAuthenticated(u) /\ RowsFree(ActiveOf(u))
    /\ accounts' = accounts \ {u}
    /\ Deactivate(ActiveOf(u))
    /\ UNCHANGED <<owner, token, handler>>

\* A session that was not used for 60 days; pruning it later changes nothing,
\* since every statement asks for sessions that are active.
ExpireSession(s) ==
    /\ s \in active /\ RowsFree({s})
    /\ Deactivate({s})
    /\ UNCHANGED <<accounts, owner, token, handler>>

AbortSession(r) ==
    /\ handler[r] # NoHandler
    /\ HandlerEnds(r)
    /\ UNCHANGED sessionTables

SessionsNext ==
    \/ \E r \in Handlers :
         \/ \E u \in Accounts : RankSessions(r, u)
         \/ RevokeOldest(r) \/ InsertSession(r)
         \/ \E s \in Sessions, t \in 1..MaxTokens : SelectSession(r, s, t)
         \/ RotateToken(r) \/ AbortSession(r)
    \/ \E s \in Sessions : ExpireSession(s) \/ \E t \in 1..MaxTokens : LogoutSession(s, t)
    \/ \E u \in Accounts : DeleteAccount(u)

SessionsSpec == SessionsInit /\ [][SessionsNext]_sessionVars

-----------------------------------------------------------------------------
(* Properties *)

\* Types of the rows and requests; the sessions that are active have one order.
SessionsTypeOK ==
    /\ accounts \subseteq Accounts
    /\ active \subseteq Sessions
    /\ newer \subseteq active \X active
    /\ \A s \in active : <<s, s>> \notin newer
    /\ \A s, t \in active : s # t => <<s, t>> \in newer \/ <<t, s>> \in newer
    /\ \A s, t, x \in active : <<s, t>> \in newer /\ <<t, x>> \in newer => <<s, x>> \in newer
    /\ owner \in [Sessions -> Accounts \cup {NoAccount}]
    /\ token \in [Sessions -> 0..MaxTokens]
    /\ handler \in [Handlers -> [step : {"idle", "ranked", "revoking", "rotating"},
                                 user : Accounts \cup {NoAccount},
                                 session : Sessions \cup {NoSession},
                                 token : 0..MaxTokens, drop : SUBSET Sessions]]

\* The limit of CreateSession holds up to the logins that cross: each of them
\* ranks the sessions before the others insert theirs.
SessionsBounded ==
    \A u \in Accounts : Cardinality(ActiveOf(u)) <= MaxActive + Cardinality(Handlers) - 1

\* No session outlives its account or is created behind its back: the check of
\* requireActiveAccount is older than the INSERT, the foreign key is not.
SessionsHaveAccounts == \A s \in active : owner[s] \in accounts

\* A token is exchanged once, and only while its session is neither revoked nor
\* expired nor gone with its account.
TokensExchangedOnce ==
    [][\A s \in Sessions : token[s] # 0 /\ token'[s] # token[s] =>
          /\ s \in active
          /\ \E r \in Handlers : handler[r].session = s /\ handler[r].token = token[s]]_sessionVars
=============================================================================
