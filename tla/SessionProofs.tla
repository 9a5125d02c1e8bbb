--------------------------- MODULE SessionProofs ---------------------------
(* Proofs about Sessions: types, the foreign key of a session and the       *)
(* exchange of its tokens.  A request that holds row locks holds rows that  *)
(* are active, and nobody else changes them.  The limit of CreateSession    *)
(* needs an argument about how many creations may still insert.             *)
EXTENDS Sessions, FiniteSetTheorems, FunctionTheorems, TLAPS

\* Requests hold locks on different rows, and a refresh holds an active row
\* whose token is the one it was given.
LocksExclusive ==
    \A q, r \in Handlers : q # r => LockedRows(q) \cap LockedRows(r) = {}

RotationValid ==
    \A r \in Handlers : handler[r].step = "rotating" =>
        handler[r].session \in active /\ token[handler[r].session] = handler[r].token

ActiveHaveTokens == \A s \in active : token[s] # 0

\* The creations that have ranked the account's sessions and not yet inserted.
Pending(u) == {r \in Handlers : handler[r].step \in {"ranked", "revoking"} /\ handler[r].user = u}

\* What a creation leaves of the sessions of its account.
Kept(r) == ActiveOf(handler[r].user) \ handler[r].drop

\* Each of the creations that are under way may add a session to what the
\* others keep, and one of them always revokes enough to make room for all.
RoomForPending ==
    \A u \in Accounts : \A Q \in SUBSET Pending(u) : Q # {} =>
        \E r \in Q : Cardinality(Kept(r)) + Cardinality(Q) <= MaxActive + Cardinality(Handlers) - 1

SessionInv ==
    SessionsTypeOK /\ LocksExclusive /\ RotationValid /\ ActiveHaveTokens /\ SessionsHaveAccounts

-----------------------------------------------------------------------------
(* The order of the active sessions *)

\* A strict total order stays one when rows are taken out.
LEMMA OrderStays ==
    ASSUME SessionsTypeOK, NEW S, Deactivate(S)
    PROVE  /\ active' \subseteq Sessions
           /\ newer' \subseteq active' \X active'
           /\ \A s \in active' : <<s, s>> \notin newer'
           /\ \A s, t \in active' : s # t => <<s, t>> \in newer' \/ <<t, s>> \in newer'
           /\ \A s, t, x \in active' : <<s, t>> \in newer' /\ <<t, x>> \in newer' => <<s, x>> \in newer'
BY DEF SessionsTypeOK, Deactivate, OrderWithout

\* And when a row is put last.
LEMMA OrderStaysWithLast ==
    ASSUME SessionsTypeOK, NEW S, NEW n \in Sessions,
           active' = (active \ S) \cup {n}, newer' = OrderWithLast(S, n)
    PROVE  /\ active' \subseteq Sessions
           /\ newer' \subseteq active' \X active'
           /\ \A s \in active' : <<s, s>> \notin newer'
           /\ \A s, t \in active' : s # t => <<s, t>> \in newer' \/ <<t, s>> \in newer'
           /\ \A s, t, x \in active' : <<s, t>> \in newer' /\ <<t, x>> \in newer' => <<s, x>> \in newer'
BY DEF SessionsTypeOK, OrderWithout, OrderWithLast

-----------------------------------------------------------------------------
(* Types *)

HandlerType == [step : {"idle", "ranked", "revoking", "rotating"},
                user : Accounts \cup {NoAccount}, session : Sessions \cup {NoSession},
                token : 0..MaxTokens, drop : SUBSET Sessions]

\* The part of the type invariant that only speaks of a request.
LEMMA HandlersTyped ==
    ASSUME SessionsTypeOK, NEW r \in Handlers, NEW h \in HandlerType,
           handler' = [handler EXCEPT ![r] = h]
    PROVE  /\ handler' \in [Handlers -> HandlerType]
           /\ handler'[r] = h
           /\ \A q \in Handlers : q # r => handler'[q] = handler[q]
BY DEF SessionsTypeOK, HandlerType

LEMMA IdleTyped == NoHandler \in HandlerType
BY SessionsAssumption DEF NoHandler, HandlerType, SessionsAssumption

\* A request that only takes up or ends its work leaves the tables' types.
LEMMA TypesWithoutTables ==
    ASSUME SessionsTypeOK, NEW r \in Handlers, NEW h \in HandlerType,
           handler' = [handler EXCEPT ![r] = h], UNCHANGED sessionTables
    PROVE  SessionsTypeOK'
<1>1. handler' \in [Handlers -> HandlerType]
  BY HandlersTyped
<1>2. UNCHANGED <<accounts, active, newer, owner, token>>
  BY DEF sessionTables
<1>. QED
  BY <1>1, <1>2 DEF SessionsTypeOK, HandlerType

LEMMA SessionsTypeInit ==
    ASSUME SessionsInit
    PROVE  SessionsTypeOK
<1>1. handler \in [Handlers -> HandlerType]
  BY IdleTyped DEF SessionsInit
<1>2. token \in [Sessions -> 0..MaxTokens]
  BY SessionsAssumption DEF SessionsInit, SessionsAssumption
<1>3. active \subseteq Sessions /\ newer \subseteq active \X active
  BY DEF SessionsInit
<1>4. accounts \subseteq Accounts /\ owner \in [Sessions -> Accounts \cup {NoAccount}]
  BY DEF SessionsInit
<1>5. active = {}
  BY DEF SessionsInit
<1>. QED
  BY <1>1, <1>2, <1>3, <1>4, <1>5 DEF SessionsTypeOK, HandlerType

LEMMA SessionsTypeNext ==
    ASSUME SessionsTypeOK, RotationValid, [SessionsNext]_sessionVars
    PROVE  SessionsTypeOK'
<1>1. ASSUME NEW r \in Handlers, NEW u \in Accounts, RankSessions(r, u)
      PROVE  SessionsTypeOK'
  <2>1. BeyondLimit(u) \in SUBSET Sessions
    BY DEF BeyondLimit, ActiveOf, SessionsTypeOK
  <2>2. [NoHandler EXCEPT !.step = "ranked", !.user = u, !.drop = BeyondLimit(u)] \in HandlerType
    BY <2>1, IdleTyped DEF HandlerType
  <2>. QED
    BY <1>1, <2>2, TypesWithoutTables DEF RankSessions, HandlerBegins
<1>2. ASSUME NEW r \in Handlers, RevokeOldest(r)
      PROVE  SessionsTypeOK'
  <2>1. handler[r] \in HandlerType
    BY DEF SessionsTypeOK, HandlerType
  <2>2. [handler[r] EXCEPT !.step = "revoking"] \in HandlerType
    BY <2>1 DEF HandlerType
  <2>3. handler' = [handler EXCEPT ![r] = [handler[r] EXCEPT !.step = "revoking"]]
    BY <1>2 DEF RevokeOldest
  <2>. QED
    BY <1>2, <2>2, <2>3, TypesWithoutTables DEF RevokeOldest
<1>3. ASSUME NEW r \in Handlers, InsertSession(r)
      PROVE  SessionsTypeOK'
  <2>1. FreshSession \in Sessions
    BY <1>3 DEF InsertSession, FreshSession
  <2>2. handler' \in [Handlers -> HandlerType]
    BY <1>3, IdleTyped, HandlersTyped DEF InsertSession, HandlerEnds
  <2>3. /\ active' = (active \ handler[r].drop) \cup {FreshSession}
        /\ newer' = OrderWithLast(handler[r].drop, FreshSession)
    BY <1>3 DEF InsertSession
  <2>4. 1 \in 0..MaxTokens
    BY SessionsAssumption DEF SessionsAssumption
  <2>5. owner' \in [Sessions -> Accounts \cup {NoAccount}]
    BY <1>3 DEF InsertSession, SessionsTypeOK
  <2>6. token' \in [Sessions -> 0..MaxTokens] /\ accounts' = accounts
    BY <1>3, <2>1, <2>4 DEF InsertSession, SessionsTypeOK
  <2>7. accounts' \subseteq Accounts
    BY <2>6 DEF SessionsTypeOK
  <2>. QED
    BY <2>1, <2>2, <2>3, <2>5, <2>6, <2>7, OrderStaysWithLast DEF SessionsTypeOK, HandlerType
<1>4. ASSUME NEW r \in Handlers, NEW s \in Sessions, NEW t \in 1..MaxTokens, SelectSession(r, s, t)
      PROVE  SessionsTypeOK'
  <2>1. t \in 0..MaxTokens
    BY SessionsAssumption DEF SessionsAssumption
  <2>2. [NoHandler EXCEPT !.step = "rotating", !.session = s, !.token = t] \in HandlerType
    BY <2>1, IdleTyped DEF HandlerType
  <2>. QED
    BY <1>4, <2>2, TypesWithoutTables DEF SelectSession, HandlerBegins
<1>5. ASSUME NEW r \in Handlers, RotateToken(r)
      PROVE  SessionsTypeOK'
  <2>. DEFINE s == handler[r].session
  <2>1. s \in active /\ s \in Sessions
    BY <1>5 DEF RotationValid, RotateToken, SessionsTypeOK
  <2>2. handler' \in [Handlers -> HandlerType]
    BY <1>5, IdleTyped, HandlersTyped DEF RotateToken, HandlerEnds
  <2>3. active' = (active \ {}) \cup {s} /\ newer' = OrderWithLast({}, s)
    BY <1>5, <2>1 DEF RotateToken
  <2>4. token[s] + 1 \in 0..MaxTokens
    BY <1>5, <2>1, SessionsAssumption DEF RotateToken, SessionsTypeOK, SessionsAssumption
  <2>5. /\ token' \in [Sessions -> 0..MaxTokens]
        /\ UNCHANGED <<accounts, owner>>
    BY <1>5, <2>1, <2>4 DEF RotateToken, SessionsTypeOK
  <2>. QED
    BY <2>1, <2>2, <2>3, <2>5, OrderStaysWithLast DEF SessionsTypeOK, HandlerType
<1>6. ASSUME NEW r \in Handlers, AbortSession(r)
      PROVE  SessionsTypeOK'
  BY <1>6, IdleTyped, TypesWithoutTables DEF AbortSession, HandlerEnds
<1>7. ASSUME NEW S, Deactivate(S), accounts' \subseteq accounts, UNCHANGED <<owner, token, handler>>
      PROVE  SessionsTypeOK'
  BY <1>7, OrderStays DEF SessionsTypeOK
<1>8. ASSUME NEW s \in Sessions, ExpireSession(s)
      PROVE  SessionsTypeOK'
  BY <1>8, <1>7 DEF ExpireSession
<1>9. ASSUME NEW s \in Sessions, NEW t \in 1..MaxTokens, LogoutSession(s, t)
      PROVE  SessionsTypeOK'
  BY <1>9, <1>7 DEF LogoutSession
<1>10. ASSUME NEW u \in Accounts, DeleteAccount(u)
       PROVE  SessionsTypeOK'
  BY <1>10, <1>7 DEF DeleteAccount
<1>11. CASE UNCHANGED sessionVars
  BY <1>11 DEF SessionsTypeOK, sessionVars
<1>. QED
  BY <1>1, <1>2, <1>3, <1>4, <1>5, <1>6, <1>8, <1>9, <1>10, <1>11 DEF SessionsNext

-----------------------------------------------------------------------------
(* Row locks, tokens and accounts *)

\* A request only changes its own locks.
LEMMA LocksOfOthers ==
    ASSUME SessionsTypeOK, NEW r \in Handlers, NEW h \in HandlerType,
           handler' = [handler EXCEPT ![r] = h]
    PROVE  /\ \A q \in Handlers \ {r} : LockedRows(q)' = LockedRows(q)
           /\ LockedRows(r)' = IF h.step = "rotating" THEN {h.session}
                               ELSE IF h.step = "revoking" THEN h.drop ELSE {}
BY HandlersTyped DEF LockedRows

\* Locks that were free are taken by one request.
LEMMA LocksStayExclusive ==
    ASSUME SessionsTypeOK, LocksExclusive, NEW r \in Handlers, NEW h \in HandlerType,
           handler' = [handler EXCEPT ![r] = h], NEW L,
           LockedRows(r)' \subseteq L,
           \A q \in Handlers \ {r} : LockedRows(q) \cap L = {}
    PROVE  LocksExclusive'
<1>. SUFFICES ASSUME NEW p \in Handlers, NEW q \in Handlers, p # q
              PROVE  LockedRows(p)' \cap LockedRows(q)' = {}
  BY DEF LocksExclusive
<1>1. \A x \in Handlers \ {r} : LockedRows(x)' = LockedRows(x)
  BY LocksOfOthers
<1>. QED
  BY <1>1 DEF LocksExclusive

\* A request that works on nothing holds nothing.
LEMMA LocksReleased ==
    ASSUME SessionsTypeOK, LocksExclusive, NEW r \in Handlers,
           handler' = [handler EXCEPT ![r] = NoHandler]
    PROVE  LocksExclusive'
<1>1. LockedRows(r)' = {}
  BY IdleTyped, LocksOfOthers DEF NoHandler
<1>. QED
  BY <1>1, IdleTyped, LocksStayExclusive

\* What a refresh holds stays valid when rows nobody locked go.
LEMMA RotationKept ==
    ASSUME RotationValid, NEW S, active' = active \ S, RowsFree(S), UNCHANGED <<token, handler>>
    PROVE  RotationValid'
BY DEF RotationValid, RowsFree, LockedRows

LEMMA SessionInvNext ==
    ASSUME SessionInv, [SessionsNext]_sessionVars
    PROVE  SessionInv'
<1>. USE DEF SessionInv
<1>0. SessionsTypeOK'
  BY SessionsTypeNext
<1>1. ASSUME NEW r \in Handlers, NEW h \in HandlerType, h.step \in {"idle", "ranked"},
             handler' = [handler EXCEPT ![r] = h], UNCHANGED sessionTables
      PROVE  SessionInv'
  <2>0. LockedRows(r)' = {}
    BY <1>1, LocksOfOthers
  <2>1. LocksExclusive'
    BY <1>1, <2>0, LocksStayExclusive
  <2>2. RotationValid'
    BY <1>1, HandlersTyped DEF RotationValid, sessionTables
  <2>3. ActiveHaveTokens' /\ SessionsHaveAccounts'
    BY <1>1 DEF ActiveHaveTokens, SessionsHaveAccounts, sessionTables
  <2>. QED
    BY <1>0, <2>1, <2>2, <2>3
<1>2. ASSUME NEW r \in Handlers, NEW u \in Accounts, RankSessions(r, u)
      PROVE  SessionInv'
  <2>1. BeyondLimit(u) \in SUBSET Sessions
    BY DEF BeyondLimit, ActiveOf, SessionsTypeOK
  <2>. DEFINE h == [NoHandler EXCEPT !.step = "ranked", !.user = u, !.drop = BeyondLimit(u)]
  <2>2. h \in HandlerType /\ h.step = "ranked"
    BY <2>1, IdleTyped DEF HandlerType
  <2>3. handler' = [handler EXCEPT ![r] = h] /\ UNCHANGED sessionTables
    BY <1>2 DEF RankSessions, HandlerBegins
  <2>. HIDE DEF h
  <2>. QED
    BY <2>2, <2>3, <1>1
<1>3. ASSUME NEW r \in Handlers, RevokeOldest(r)
      PROVE  SessionInv'
  <2>. DEFINE h == [handler[r] EXCEPT !.step = "revoking"]
  <2>0. handler[r] \in HandlerType
    BY DEF SessionsTypeOK, HandlerType
  <2>1. h \in HandlerType /\ h.step = "revoking" /\ h.drop = handler[r].drop
    BY <2>0 DEF HandlerType
  <2>2. handler' = [handler EXCEPT ![r] = h] /\ UNCHANGED sessionTables
    BY <1>3 DEF RevokeOldest
  <2>. HIDE DEF h
  <2>3. LockedRows(r)' = handler[r].drop
    BY <2>1, <2>2, LocksOfOthers
  <2>4. \A q \in Handlers \ {r} : LockedRows(q) \cap handler[r].drop = {}
    BY <1>3 DEF RevokeOldest, RowsFree
  <2>5. LocksExclusive'
    BY <2>1, <2>2, <2>3, <2>4, LocksStayExclusive
  <2>6. RotationValid'
    BY <2>1, <2>2, HandlersTyped DEF RotationValid, sessionTables
  <2>7. ActiveHaveTokens' /\ SessionsHaveAccounts'
    BY <2>2 DEF ActiveHaveTokens, SessionsHaveAccounts, sessionTables
  <2>. QED
    BY <1>0, <2>5, <2>6, <2>7
<1>4. ASSUME NEW r \in Handlers, InsertSession(r)
      PROVE  SessionInv'
  <2>1. handler' = [handler EXCEPT ![r] = NoHandler]
    BY <1>4 DEF InsertSession, HandlerEnds
  <2>2. FreshSession \in Sessions /\ token[FreshSession] = 0
    BY <1>4 DEF InsertSession, FreshSession
  <2>3. FreshSession \notin active
    BY <2>2 DEF ActiveHaveTokens
  <2>4. /\ active' = (active \ handler[r].drop) \cup {FreshSession}
        /\ owner' = [owner EXCEPT ![FreshSession] = handler[r].user]
        /\ token' = [token EXCEPT ![FreshSession] = 1]
        /\ accounts' = accounts /\ handler[r].user \in accounts
        /\ handler[r].step = "revoking"
    BY <1>4 DEF InsertSession
  <2>5. LocksExclusive'
    BY <2>1, LocksReleased
  <2>6. ASSUME NEW q \in Handlers, handler'[q].step = "rotating"
        PROVE  handler'[q].session \in active' /\ token'[handler'[q].session] = handler'[q].token
    <3>1. q # r /\ handler'[q] = handler[q]
      BY <2>1, <2>6, IdleTyped, HandlersTyped DEF NoHandler
    <3>2. handler[q].session \in active /\ token[handler[q].session] = handler[q].token
      BY <2>6, <3>1 DEF RotationValid
    <3>3. handler[q].session \notin handler[r].drop
      BY <2>4, <2>6, <3>1 DEF LocksExclusive, LockedRows
    <3>. QED
      BY <2>3, <2>4, <3>1, <3>2, <3>3 DEF SessionsTypeOK
  <2>7. ActiveHaveTokens'
    BY <2>2, <2>3, <2>4 DEF ActiveHaveTokens, SessionsTypeOK
  <2>8. SessionsHaveAccounts'
    BY <2>2, <2>3, <2>4 DEF SessionsHaveAccounts, SessionsTypeOK
  <2>. QED
    BY <1>0, <2>5, <2>6, <2>7, <2>8 DEF RotationValid
<1>5. ASSUME NEW r \in Handlers, NEW s \in Sessions, NEW t \in 1..MaxTokens, SelectSession(r, s, t)
      PROVE  SessionInv'
  <2>. DEFINE h == [NoHandler EXCEPT !.step = "rotating", !.session = s, !.token = t]
  <2>1. t \in 0..MaxTokens
    BY SessionsAssumption DEF SessionsAssumption
  <2>2. h \in HandlerType /\ h.step = "rotating" /\ h.session = s /\ h.token = t
    BY <2>1, IdleTyped DEF HandlerType
  <2>3. /\ handler' = [handler EXCEPT ![r] = h] /\ UNCHANGED sessionTables
        /\ s \in active /\ token[s] = t
    BY <1>5 DEF SelectSession, HandlerBegins
  <2>. HIDE DEF h
  <2>4. LockedRows(r)' = {s}
    BY <2>2, <2>3, LocksOfOthers
  <2>5. \A q \in Handlers \ {r} : LockedRows(q) \cap {s} = {}
    BY <1>5 DEF SelectSession, RowsFree
  <2>6. LocksExclusive'
    BY <2>2, <2>3, <2>4, <2>5, LocksStayExclusive
  <2>7. RotationValid'
    BY <2>2, <2>3, HandlersTyped DEF RotationValid, sessionTables
  <2>8. ActiveHaveTokens' /\ SessionsHaveAccounts'
    BY <2>3 DEF ActiveHaveTokens, SessionsHaveAccounts, sessionTables
  <2>. QED
    BY <1>0, <2>6, <2>7, <2>8
<1>6. ASSUME NEW r \in Handlers, RotateToken(r)
      PROVE  SessionInv'
  <2>. DEFINE s == handler[r].session
  <2>1. handler' = [handler EXCEPT ![r] = NoHandler]
    BY <1>6 DEF RotateToken, HandlerEnds
  <2>2. /\ token' = [token EXCEPT ![s] = @ + 1]
        /\ UNCHANGED <<accounts, active, owner>>
        /\ handler[r].step = "rotating"
    BY <1>6 DEF RotateToken
  <2>3. s \in active /\ s \in Sessions /\ token[s] \in Nat
    BY <2>2, SessionsAssumption DEF RotationValid, SessionsTypeOK, SessionsAssumption
  <2>4. LocksExclusive'
    BY <2>1, LocksReleased
  <2>5. ASSUME NEW q \in Handlers, handler'[q].step = "rotating"
        PROVE  handler'[q].session \in active' /\ token'[handler'[q].session] = handler'[q].token
    <3>1. q # r /\ handler'[q] = handler[q]
      BY <2>1, <2>5, IdleTyped, HandlersTyped DEF NoHandler
    <3>2. handler[q].session \in active /\ token[handler[q].session] = handler[q].token
      BY <2>5, <3>1 DEF RotationValid
    <3>3. handler[q].session # s
      BY <2>2, <2>5, <3>1 DEF LocksExclusive, LockedRows
    <3>. QED
      BY <2>2, <3>1, <3>2, <3>3 DEF SessionsTypeOK
  <2>6. ActiveHaveTokens'
    BY <2>2, <2>3 DEF ActiveHaveTokens, SessionsTypeOK
  <2>7. SessionsHaveAccounts'
    BY <2>2 DEF SessionsHaveAccounts
  <2>. QED
    BY <1>0, <2>4, <2>5, <2>6, <2>7 DEF RotationValid
<1>7. ASSUME NEW r \in Handlers, AbortSession(r)
      PROVE  SessionInv'
  <2>1. handler' = [handler EXCEPT ![r] = NoHandler] /\ UNCHANGED sessionTables
    BY <1>7 DEF AbortSession, HandlerEnds
  <2>. QED
    BY <2>1, <1>1, IdleTyped DEF NoHandler
<1>8. ASSUME NEW S, Deactivate(S), RowsFree(S), UNCHANGED <<owner, token, handler>>,
             \A s \in active \ S : owner[s] \in accounts'
      PROVE  SessionInv'
  <2>1. active' = active \ S
    BY <1>8 DEF Deactivate
  <2>2. RotationValid'
    BY <1>8, <2>1, RotationKept
  <2>3. LocksExclusive'
    BY <1>8 DEF LocksExclusive, LockedRows
  <2>4. ActiveHaveTokens' /\ SessionsHaveAccounts'
    BY <1>8, <2>1 DEF ActiveHaveTokens, SessionsHaveAccounts
  <2>. QED
    BY <1>0, <2>2, <2>3, <2>4
<1>9. ASSUME NEW s \in Sessions, ExpireSession(s)
      PROVE  SessionInv'
  BY <1>9, <1>8 DEF ExpireSession, SessionsHaveAccounts
<1>10. ASSUME NEW s \in Sessions, NEW t \in 1..MaxTokens, LogoutSession(s, t)
       PROVE  SessionInv'
  BY <1>10, <1>8 DEF LogoutSession, SessionsHaveAccounts
<1>11. ASSUME NEW u \in Accounts, DeleteAccount(u)
       PROVE  SessionInv'
  BY <1>11, <1>8 DEF DeleteAccount, SessionsHaveAccounts, ActiveOf
<1>12. CASE UNCHANGED sessionVars
  <2>1. LocksExclusive' /\ RotationValid'
    BY <1>12 DEF sessionVars, LocksExclusive, RotationValid, LockedRows
  <2>2. ActiveHaveTokens' /\ SessionsHaveAccounts'
    BY <1>12 DEF sessionVars, ActiveHaveTokens, SessionsHaveAccounts
  <2>. QED
    BY <1>0, <2>1, <2>2
<1>. QED
  BY <1>2, <1>3, <1>4, <1>5, <1>6, <1>7, <1>9, <1>10, <1>11, <1>12 DEF SessionsNext

LEMMA SessionInvInit == SessionsInit => SessionInv
BY SessionsTypeInit DEF SessionsInit, SessionInv, LocksExclusive, RotationValid, LockedRows,
   ActiveHaveTokens, SessionsHaveAccounts, NoHandler

-----------------------------------------------------------------------------
(* The limit of CreateSession *)

LimitInv == IsFiniteSet(active) /\ RoomForPending /\ SessionsBounded

\* Numbers the counting works with.
LEMMA CountsAreNumbers ==
    /\ MaxActive \in Nat /\ MaxActive >= 1
    /\ IsFiniteSet(Handlers) /\ Cardinality(Handlers) \in Nat
BY SessionsAssumption, FS_CardinalityType DEF SessionsAssumption

\* The UPDATE of CreateSession leaves fewer than MaxActive of the sessions it
\* ranks: each of those it leaves has its own number of later used ones.
LEMMA RankingLeavesRoom ==
    ASSUME SessionsTypeOK, IsFiniteSet(active), NEW u \in Accounts
    PROVE  Cardinality(ActiveOf(u) \ BeyondLimit(u)) <= MaxActive - 1
<1>. DEFINE S == ActiveOf(u) \ BeyondLimit(u)
            T == 0 .. (MaxActive - 2)
            f == [s \in S |-> Cardinality(NewerThan(s, u))]
<1>1. ASSUME NEW s \in ActiveOf(u)
      PROVE  /\ IsFiniteSet(NewerThan(s, u)) /\ Cardinality(NewerThan(s, u)) \in Nat
             /\ NewerThan(s, u) \in SUBSET ActiveOf(u)
  <2>1. NewerThan(s, u) \in SUBSET active
    BY DEF NewerThan, ActiveOf
  <2>. QED
    BY <2>1, FS_Subset, FS_CardinalityType DEF NewerThan
<1>2. f \in [S -> T]
  <2>. SUFFICES ASSUME NEW s \in S
                PROVE  Cardinality(NewerThan(s, u)) \in T
    OBVIOUS
  <2>1. ~(Cardinality(NewerThan(s, u)) + 1 >= MaxActive) /\ s \in ActiveOf(u)
    BY DEF BeyondLimit
  <2>. QED
    BY <2>1, <1>1, CountsAreNumbers
<1>3. ASSUME NEW s \in S, NEW t \in S, <<s, t>> \in newer
      PROVE  f[s] # f[t]
  <2>1. s \in active /\ t \in active
    BY DEF ActiveOf
  <2>2. NewerThan(s, u) \in SUBSET NewerThan(t, u)
    BY <1>3, <2>1 DEF NewerThan, ActiveOf, SessionsTypeOK
  <2>3. s \in NewerThan(t, u) /\ s \notin NewerThan(s, u)
    BY <1>3, <2>1 DEF NewerThan, SessionsTypeOK
  <2>. QED
    BY <1>1, <2>2, <2>3, FS_Subset
<1>4. \A s, t \in S : s # t => f[s] # f[t]
  <2>1. \A s, t \in S : s # t => <<s, t>> \in newer \/ <<t, s>> \in newer
    BY DEF ActiveOf, SessionsTypeOK
  <2>. QED
    BY <1>3, <2>1
<1>5. f \in Injection(S, T)
  BY <1>2, <1>4 DEF Injection, IsInjective
<1>6. IsFiniteSet(T) /\ Cardinality(T) = MaxActive - 1
  <2>1. MaxActive - 2 \in Int /\ 0 \in Int
    BY CountsAreNumbers
  <2>2. IsFiniteSet(T) /\ Cardinality(T) = IF 0 > MaxActive - 2 THEN 0 ELSE (MaxActive - 2) - 0 + 1
    BY <2>1, FS_Interval
  <2>. QED
    BY <2>2, CountsAreNumbers
<1>. HIDE DEF S, T, f
<1>7. Cardinality(S) <= Cardinality(T)
  BY <1>5, <1>6, FS_Injection
<1>. QED
  BY <1>6, <1>7 DEF S

\* Sets of sessions and of requests are finite.
LEMMA KeptIsFinite ==
    ASSUME IsFiniteSet(active)
    PROVE  /\ \A u : IsFiniteSet(ActiveOf(u)) /\ Cardinality(ActiveOf(u)) \in Nat
           /\ \A r : IsFiniteSet(Kept(r)) /\ Cardinality(Kept(r)) \in Nat
           /\ \A Q \in SUBSET Handlers : IsFiniteSet(Q) /\ Cardinality(Q) \in Nat
                                       /\ Cardinality(Q) <= Cardinality(Handlers)
<1>1. ASSUME NEW u
      PROVE  IsFiniteSet(ActiveOf(u)) /\ Cardinality(ActiveOf(u)) \in Nat
  <2>1. ActiveOf(u) \in SUBSET active
    BY DEF ActiveOf
  <2>. QED
    BY <2>1, FS_Subset, FS_CardinalityType
<1>2. ASSUME NEW r
      PROVE  IsFiniteSet(Kept(r)) /\ Cardinality(Kept(r)) \in Nat
  <2>1. Kept(r) \in SUBSET active
    BY DEF Kept, ActiveOf
  <2>. QED
    BY <2>1, FS_Subset, FS_CardinalityType
<1>3. ASSUME NEW Q \in SUBSET Handlers
      PROVE  /\ IsFiniteSet(Q) /\ Cardinality(Q) \in Nat
             /\ Cardinality(Q) <= Cardinality(Handlers)
  BY CountsAreNumbers, FS_Subset, FS_CardinalityType
<1>. QED
  BY <1>1, <1>2, <1>3

\* One more element counts for one more at most.
LEMMA OneMore ==
    ASSUME NEW K, IsFiniteSet(K), NEW x
    PROVE  /\ IsFiniteSet(K \cup {x})
           /\ Cardinality(K) \in Nat /\ Cardinality(K \cup {x}) \in Nat
           /\ Cardinality(K \cup {x}) <= Cardinality(K) + 1
<1>1. /\ IsFiniteSet(K \cup {x})
      /\ Cardinality(K \cup {x}) = IF x \in K THEN Cardinality(K) ELSE Cardinality(K) + 1
  BY FS_AddElement
<1>2. Cardinality(K) \in Nat /\ Cardinality(K \cup {x}) \in Nat
  BY <1>1, FS_CardinalityType
<1>. QED
  BY <1>1, <1>2

\* Steps that revoke sessions or give up creations leave the room there is.
LEMMA RoomStays ==
    ASSUME LimitInv, active' \subseteq active,
           \A u \in Accounts : ActiveOf(u)' \subseteq ActiveOf(u),
           \A u \in Accounts : Pending(u)' \subseteq Pending(u),
           \A u \in Accounts : \A r \in Pending(u)' : Kept(r)' \subseteq Kept(r)
    PROVE  LimitInv'
<1>. USE DEF LimitInv
<1>1. IsFiniteSet(active)'
  BY FS_Subset
<1>2. ASSUME NEW u \in Accounts
      PROVE  Cardinality(ActiveOf(u))' <= MaxActive + Cardinality(Handlers) - 1
  <2>1. Cardinality(ActiveOf(u)) <= MaxActive + Cardinality(Handlers) - 1
    BY DEF SessionsBounded
  <2>2. IsFiniteSet(ActiveOf(u)) /\ ActiveOf(u)' \in SUBSET ActiveOf(u)
    BY KeptIsFinite
  <2>3. Cardinality(ActiveOf(u)') <= Cardinality(ActiveOf(u)) /\ IsFiniteSet(ActiveOf(u)')
    BY <2>2, FS_Subset
  <2>4. Cardinality(ActiveOf(u)') \in Nat /\ Cardinality(ActiveOf(u)) \in Nat
    BY <2>3, FS_CardinalityType, KeptIsFinite
  <2>. QED
    BY <2>1, <2>3, <2>4, CountsAreNumbers
<1>3. ASSUME NEW u \in Accounts, NEW Q \in SUBSET Pending(u)', Q # {}
      PROVE  \E r \in Q : Cardinality(Kept(r))' + Cardinality(Q) <= MaxActive + Cardinality(Handlers) - 1
  <2>1. Q \in SUBSET Pending(u) /\ Q \in SUBSET Handlers
    BY DEF Pending
  <2>2. PICK r \in Q : Cardinality(Kept(r)) + Cardinality(Q) <= MaxActive + Cardinality(Handlers) - 1
    BY <1>3, <2>1 DEF RoomForPending
  <2>3. IsFiniteSet(Kept(r)) /\ Kept(r)' \in SUBSET Kept(r)
    BY KeptIsFinite
  <2>4. Cardinality(Kept(r)') <= Cardinality(Kept(r)) /\ IsFiniteSet(Kept(r)')
    BY <2>3, FS_Subset
  <2>5. Cardinality(Kept(r)') \in Nat /\ Cardinality(Kept(r)) \in Nat /\ Cardinality(Q) \in Nat
    BY <2>1, <2>4, FS_CardinalityType, KeptIsFinite
  <2>6. Cardinality(Kept(r)') + Cardinality(Q) <= MaxActive + Cardinality(Handlers) - 1
    BY <2>2, <2>4, <2>5, CountsAreNumbers
  <2>. QED
    BY <2>6
<1>. QED
  BY <1>1, <1>2, <1>3 DEF SessionsBounded, RoomForPending

\* A creation that ranks the sessions makes room for all the requests there are.
LEMMA RankingMakesRoom ==
    ASSUME SessionInv, LimitInv, NEW r \in Handlers, NEW v \in Accounts, RankSessions(r, v)
    PROVE  LimitInv'
<1>. USE DEF LimitInv, SessionInv
<1>. DEFINE h == [NoHandler EXCEPT !.step = "ranked", !.user = v, !.drop = BeyondLimit(v)]
<1>1. /\ handler' = [handler EXCEPT ![r] = h] /\ UNCHANGED <<active, owner>>
      /\ handler[r] = NoHandler
  BY DEF RankSessions, HandlerBegins, sessionTables
<1>2. h \in HandlerType /\ h.step = "ranked" /\ h.user = v /\ h.drop = BeyondLimit(v)
  <2>1. BeyondLimit(v) \in SUBSET Sessions
    BY DEF BeyondLimit, ActiveOf, SessionsTypeOK
  <2>. QED
    BY <2>1, IdleTyped DEF HandlerType, NoHandler
<1>. HIDE DEF h
<1>3. /\ handler'[r] = h
      /\ \A q \in Handlers : q # r => handler'[q] = handler[q]
  BY <1>1, <1>2, HandlersTyped
<1>4. \A u \in Accounts : ActiveOf(u)' = ActiveOf(u)
  BY <1>1 DEF ActiveOf
<1>5. Kept(r)' = ActiveOf(v) \ BeyondLimit(v)
  BY <1>1, <1>2, <1>3 DEF Kept, ActiveOf
<1>6. ASSUME NEW u \in Accounts, NEW Q \in SUBSET Pending(u)', Q # {}
      PROVE  \E q \in Q : Cardinality(Kept(q))' + Cardinality(Q) <= MaxActive + Cardinality(Handlers) - 1
  <2>0. /\ Q \in SUBSET Handlers /\ Cardinality(Q) \in Nat
        /\ Cardinality(Q) <= Cardinality(Handlers)
    BY KeptIsFinite DEF Pending
  <2>1. CASE r \in Q
    <3>1. Cardinality(Kept(r)') <= MaxActive - 1
      BY <1>5, RankingLeavesRoom
    <3>2. Cardinality(Kept(r)') \in Nat
      <4>1. Kept(r)' \in SUBSET active
        BY <1>5 DEF ActiveOf
      <4>. QED
        BY <4>1, FS_Subset, FS_CardinalityType
    <3>. QED
      BY <2>0, <2>1, <3>1, <3>2, CountsAreNumbers
  <2>2. CASE r \notin Q
    <3>1. Q \in SUBSET Pending(u)
      BY <1>3, <2>2 DEF Pending
    <3>2. PICK q \in Q : Cardinality(Kept(q)) + Cardinality(Q) <= MaxActive + Cardinality(Handlers) - 1
      BY <1>6, <3>1 DEF RoomForPending
    <3>3. q \in Handlers /\ q # r
      BY <2>0, <2>2
    <3>4. Kept(q)' = Kept(q)
      BY <1>1, <1>3, <3>3 DEF Kept, ActiveOf
    <3>. QED
      BY <3>2, <3>4
  <2>. QED
    BY <2>1, <2>2
<1>. QED
  BY <1>1, <1>4, <1>6 DEF SessionsBounded, RoomForPending

\* What a creation inserts is the one session it adds to those it kept.
LEMMA InsertAddsOne ==
    ASSUME SessionInv, NEW r \in Handlers, NEW v \in Accounts, handler[r].user = v, InsertSession(r)
    PROVE  /\ active' = (active \ handler[r].drop) \cup {FreshSession}
           /\ FreshSession \in Sessions /\ FreshSession \notin active
           /\ ActiveOf(v)' = Kept(r) \cup {FreshSession}
           /\ \A u \in Accounts : u # v => ActiveOf(u)' \subseteq ActiveOf(u)
           /\ \A u \in Accounts : ActiveOf(u)' \subseteq ActiveOf(u) \cup {FreshSession}
           /\ r \in Pending(v)
           /\ \A q \in Handlers : q # r => handler'[q] = handler[q]
           /\ \A u \in Accounts : Pending(u)' = Pending(u) \ {r}
<1>. USE DEF SessionInv
<1>1. /\ active' = (active \ handler[r].drop) \cup {FreshSession}
      /\ owner' = [owner EXCEPT ![FreshSession] = handler[r].user]
      /\ handler[r].step = "revoking" /\ handler[r].user \in accounts
      /\ handler' = [handler EXCEPT ![r] = NoHandler]
  BY DEF InsertSession, HandlerEnds
<1>2. FreshSession \in Sessions /\ token[FreshSession] = 0
  BY DEF InsertSession, FreshSession
<1>3. FreshSession \notin active /\ active \subseteq Sessions
  BY <1>2 DEF ActiveHaveTokens, SessionsTypeOK
<1>4. /\ \A s \in Sessions : s # FreshSession => owner'[s] = owner[s]
      /\ owner'[FreshSession] = handler[r].user
  BY <1>1, <1>2 DEF SessionsTypeOK
<1>6. ActiveOf(v)' = Kept(r) \cup {FreshSession}
  <2>1. \A s : s \in active' /\ owner'[s] = v <=> s \in Kept(r) \cup {FreshSession}
    BY <1>1, <1>2, <1>3, <1>4 DEF Kept, ActiveOf
  <2>. QED
    BY <2>1 DEF ActiveOf
<1>7. \A u \in Accounts : u # v => ActiveOf(u)' \subseteq ActiveOf(u)
  BY <1>1, <1>2, <1>3, <1>4 DEF ActiveOf
<1>8. \A u \in Accounts : ActiveOf(u)' \subseteq ActiveOf(u) \cup {FreshSession}
  BY <1>1, <1>2, <1>3, <1>4 DEF ActiveOf
<1>9. /\ handler'[r] = NoHandler
      /\ \A q \in Handlers : q # r => handler'[q] = handler[q]
  BY <1>1, IdleTyped, HandlersTyped
<1>10. r \in Pending(v)
  BY <1>1 DEF Pending
<1>11. \A u \in Accounts : Pending(u)' = Pending(u) \ {r}
  BY <1>9 DEF Pending, NoHandler
<1>. QED
  BY <1>1, <1>2, <1>3, <1>6, <1>7, <1>8, <1>9, <1>10, <1>11

\* The room that all the pending creations had is what the others still have.
LEMMA InsertUsesOwnRoom ==
    ASSUME SessionInv, LimitInv, NEW r \in Handlers, InsertSession(r)
    PROVE  LimitInv'
<1>. USE DEF LimitInv
<1>0. PICK v \in Accounts : handler[r].user = v
  BY DEF InsertSession, SessionInv, SessionsTypeOK
<1>1. /\ active' = (active \ handler[r].drop) \cup {FreshSession}
      /\ ActiveOf(v)' = Kept(r) \cup {FreshSession}
      /\ \A u \in Accounts : u # v => ActiveOf(u)' \subseteq ActiveOf(u)
      /\ \A u \in Accounts : ActiveOf(u)' \subseteq ActiveOf(u) \cup {FreshSession}
      /\ r \in Pending(v)
      /\ \A q \in Handlers : q # r => handler'[q] = handler[q]
      /\ \A u \in Accounts : Pending(u)' = Pending(u) \ {r}
  BY <1>0, InsertAddsOne
<1>. DEFINE B == MaxActive + Cardinality(Handlers) - 1
<1>b. B \in Nat
  BY CountsAreNumbers
<1>2. IsFiniteSet(active)'
  <2>1. IsFiniteSet(active \ handler[r].drop)
    BY FS_Difference
  <2>. QED
    BY <1>1, <2>1, FS_AddElement
<1>3. Cardinality(ActiveOf(v)') <= B
  <2>1. {r} \in SUBSET Pending(v) /\ Cardinality({r}) = 1
    BY <1>1, FS_Singleton
  <2>2. Cardinality(Kept(r)) + 1 <= B
    BY <2>1 DEF RoomForPending
  <2>3. IsFiniteSet(Kept(r))
    BY KeptIsFinite
  <2>4. /\ Cardinality(Kept(r)) \in Nat
        /\ Cardinality(Kept(r) \cup {FreshSession}) \in Nat
        /\ Cardinality(Kept(r) \cup {FreshSession}) <= Cardinality(Kept(r)) + 1
    BY <2>3, OneMore
  <2>. HIDE DEF B
  <2>. QED
    BY <1>1, <1>b, <2>2, <2>4
<1>4. ASSUME NEW u \in Accounts
      PROVE  Cardinality(ActiveOf(u))' <= B
  <2>1. CASE u # v
    <3>1. ActiveOf(u)' \in SUBSET ActiveOf(u) /\ IsFiniteSet(ActiveOf(u))
      BY <1>1, <2>1, KeptIsFinite
    <3>2. Cardinality(ActiveOf(u)') <= Cardinality(ActiveOf(u)) /\ IsFiniteSet(ActiveOf(u)')
      BY <3>1, FS_Subset
    <3>3. Cardinality(ActiveOf(u)') \in Nat /\ Cardinality(ActiveOf(u)) \in Nat
      BY <3>1, <3>2, FS_CardinalityType
    <3>4. Cardinality(ActiveOf(u)) <= B
      BY DEF SessionsBounded
    <3>. HIDE DEF B
    <3>. QED
      BY <1>b, <3>2, <3>3, <3>4
  <2>. QED
    BY <1>3, <2>1
<1>5. ASSUME NEW u \in Accounts, NEW Q \in SUBSET Pending(u)', Q # {}
      PROVE  \E q \in Q : Cardinality(Kept(q)') + Cardinality(Q) <= B
  <2>0. /\ Q \in SUBSET Pending(u) /\ Q \in SUBSET Handlers /\ r \notin Q
        /\ IsFiniteSet(Q) /\ Cardinality(Q) \in Nat
    BY <1>1, KeptIsFinite DEF Pending
  <2>1. ASSUME NEW q \in Q
        PROVE  /\ handler'[q] = handler[q] /\ handler[q].user = u
               /\ Kept(q)' = ActiveOf(u)' \ handler[q].drop
    <3>1. handler'[q] = handler[q] /\ handler[q].user = u
      BY <1>1, <2>0 DEF Pending
    <3>. QED
      BY <3>1 DEF Kept, ActiveOf
  <2>2. ASSUME NEW q \in Q, NEW K, IsFiniteSet(K), Kept(q)' \subseteq K \cup {FreshSession},
               Cardinality(K) + (Cardinality(Q) + 1) <= B
        PROVE  Cardinality(Kept(q)') + Cardinality(Q) <= B
    <3>1. /\ IsFiniteSet(K \cup {FreshSession})
          /\ Cardinality(K \cup {FreshSession}) <= Cardinality(K) + 1
      BY <2>2, OneMore
    <3>2. Kept(q)' \in SUBSET (K \cup {FreshSession})
      BY <2>2
    <3>3. /\ IsFiniteSet(Kept(q)')
          /\ Cardinality(Kept(q)') <= Cardinality(K \cup {FreshSession})
      BY <3>1, <3>2, FS_Subset
    <3>4. /\ Cardinality(Kept(q)') \in Nat /\ Cardinality(K) \in Nat
          /\ Cardinality(K \cup {FreshSession}) \in Nat
      BY <2>2, <3>1, <3>3, FS_CardinalityType
    <3>. HIDE DEF B
    <3>. QED
      BY <1>b, <2>0, <2>2, <3>1, <3>3, <3>4
  <2>3. CASE u = v
    <3>1. /\ Q \cup {r} \in SUBSET Pending(u) /\ Q \cup {r} # {}
          /\ Cardinality(Q \cup {r}) = Cardinality(Q) + 1
      BY <1>1, <2>0, <2>3, FS_AddElement
    <3>2. PICK p \in Q \cup {r} : Cardinality(Kept(p)) + (Cardinality(Q) + 1) <= B
      BY <3>1 DEF RoomForPending
    <3>3. CASE p \in Q
      <4>1. Kept(p)' \subseteq Kept(p) \cup {FreshSession}
        BY <1>1, <2>1, <3>3 DEF Kept
      <4>. QED
        BY <2>2, <3>2, <3>3, <4>1, KeptIsFinite
    <3>4. CASE p = r
      <4>1. PICK q \in Q : TRUE
        BY <1>5
      <4>2. Kept(q)' \subseteq Kept(r) \cup {FreshSession}
        BY <1>1, <2>1, <2>3
      <4>. QED
        BY <2>2, <3>2, <3>4, <4>2, KeptIsFinite
    <3>. QED
      BY <3>2, <3>3, <3>4
  <2>4. CASE u # v
    <3>1. PICK q \in Q : Cardinality(Kept(q)) + Cardinality(Q) <= B
      BY <1>5, <2>0 DEF RoomForPending
    <3>2. Kept(q)' \in SUBSET Kept(q) /\ IsFiniteSet(Kept(q))
      BY <1>1, <2>1, <2>4, KeptIsFinite DEF Kept
    <3>3. Cardinality(Kept(q)') <= Cardinality(Kept(q)) /\ IsFiniteSet(Kept(q)')
      BY <3>2, FS_Subset
    <3>4. Cardinality(Kept(q)') \in Nat /\ Cardinality(Kept(q)) \in Nat
      BY <3>2, <3>3, FS_CardinalityType
    <3>5. Cardinality(Kept(q)') + Cardinality(Q) <= B
      <4>. HIDE DEF B
      <4>. QED
        BY <1>b, <2>0, <3>1, <3>3, <3>4
    <3>. QED
      BY <3>5
  <2>. QED
    BY <2>3, <2>4
<1>. QED
  BY <1>2, <1>4, <1>5 DEF SessionsBounded, RoomForPending

LEMMA LimitInvNext ==
    ASSUME SessionInv, LimitInv, [SessionsNext]_sessionVars
    PROVE  LimitInv'
<1>1. ASSUME NEW r \in Handlers, NEW h \in HandlerType, handler' = [handler EXCEPT ![r] = h],
             UNCHANGED <<active, owner>>,
             \/ h.step \notin {"ranked", "revoking"}
             \/ /\ handler[r].step \in {"ranked", "revoking"}
                /\ h.user = handler[r].user /\ h.drop = handler[r].drop
      PROVE  LimitInv'
  <2>1. /\ handler'[r] = h
        /\ \A q \in Handlers : q # r => handler'[q] = handler[q]
    BY <1>1, HandlersTyped DEF SessionInv
  <2>2. \A u \in Accounts : Pending(u)' \subseteq Pending(u)
    BY <1>1, <2>1 DEF Pending
  <2>3. \A u \in Accounts : ActiveOf(u)' = ActiveOf(u)
    BY <1>1 DEF ActiveOf
  <2>4. \A u \in Accounts : \A q \in Pending(u)' : Kept(q)' \subseteq Kept(q)
    BY <1>1, <2>1 DEF Pending, Kept, ActiveOf
  <2>. QED
    BY <1>1, <2>2, <2>3, <2>4, RoomStays
<1>2. ASSUME NEW S, Deactivate(S), UNCHANGED <<owner, handler>>
      PROVE  LimitInv'
  <2>1. active' = active \ S
    BY <1>2 DEF Deactivate
  <2>2. \A u \in Accounts : Pending(u)' = Pending(u)
    BY <1>2 DEF Pending
  <2>3. \A u \in Accounts : ActiveOf(u)' \subseteq ActiveOf(u)
    BY <1>2, <2>1 DEF ActiveOf
  <2>4. \A q : Kept(q)' \subseteq Kept(q)
    BY <1>2, <2>1 DEF Kept, ActiveOf
  <2>. QED
    BY <2>1, <2>2, <2>3, <2>4, RoomStays
<1>3. ASSUME NEW r \in Handlers, NEW u \in Accounts, RankSessions(r, u)
      PROVE  LimitInv'
  BY <1>3, RankingMakesRoom
<1>4. ASSUME NEW r \in Handlers, RevokeOldest(r)
      PROVE  LimitInv'
  <2>. DEFINE h == [handler[r] EXCEPT !.step = "revoking"]
  <2>0. handler[r] \in HandlerType
    BY DEF SessionInv, SessionsTypeOK, HandlerType
  <2>1. h \in HandlerType /\ h.user = handler[r].user /\ h.drop = handler[r].drop
    BY <2>0 DEF HandlerType
  <2>2. /\ handler' = [handler EXCEPT ![r] = h] /\ UNCHANGED <<active, owner>>
        /\ handler[r].step = "ranked"
    BY <1>4 DEF RevokeOldest, sessionTables
  <2>. HIDE DEF h
  <2>. QED
    BY <1>1, <2>1, <2>2
<1>5. ASSUME NEW r \in Handlers, InsertSession(r)
      PROVE  LimitInv'
  BY <1>5, InsertUsesOwnRoom
<1>6. ASSUME NEW r \in Handlers, NEW s \in Sessions, NEW t \in 1..MaxTokens, SelectSession(r, s, t)
      PROVE  LimitInv'
  <2>. DEFINE h == [NoHandler EXCEPT !.step = "rotating", !.session = s, !.token = t]
  <2>1. t \in 0..MaxTokens
    BY SessionsAssumption DEF SessionsAssumption
  <2>2. h \in HandlerType /\ h.step = "rotating"
    BY <2>1, IdleTyped DEF HandlerType
  <2>3. handler' = [handler EXCEPT ![r] = h] /\ UNCHANGED <<active, owner>>
    BY <1>6 DEF SelectSession, HandlerBegins, sessionTables
  <2>. HIDE DEF h
  <2>. QED
    BY <1>1, <2>2, <2>3
<1>7. ASSUME NEW r \in Handlers, RotateToken(r)
      PROVE  LimitInv'
  <2>1. handler' = [handler EXCEPT ![r] = NoHandler] /\ UNCHANGED <<active, owner>>
    BY <1>7 DEF RotateToken, HandlerEnds
  <2>. QED
    BY <1>1, <2>1, IdleTyped DEF NoHandler
<1>8. ASSUME NEW r \in Handlers, AbortSession(r)
      PROVE  LimitInv'
  <2>1. handler' = [handler EXCEPT ![r] = NoHandler] /\ UNCHANGED <<active, owner>>
    BY <1>8 DEF AbortSession, HandlerEnds, sessionTables
  <2>. QED
    BY <1>1, <2>1, IdleTyped DEF NoHandler
<1>9. ASSUME NEW s \in Sessions, ExpireSession(s)
      PROVE  LimitInv'
  BY <1>9, <1>2 DEF ExpireSession
<1>10. ASSUME NEW s \in Sessions, NEW t \in 1..MaxTokens, LogoutSession(s, t)
       PROVE  LimitInv'
  BY <1>10, <1>2 DEF LogoutSession
<1>11. ASSUME NEW u \in Accounts, DeleteAccount(u)
       PROVE  LimitInv'
  BY <1>11, <1>2 DEF DeleteAccount
<1>12. CASE UNCHANGED sessionVars
  BY <1>12, RoomStays DEF sessionVars, ActiveOf, Pending, Kept
<1>. QED
  BY <1>3, <1>4, <1>5, <1>6, <1>7, <1>8, <1>9, <1>10, <1>11, <1>12 DEF SessionsNext

LEMMA LimitInvInit == SessionsInit => LimitInv
<1>. SUFFICES ASSUME SessionsInit
              PROVE  LimitInv
  OBVIOUS
<1>1. active = {} /\ IsFiniteSet(active)
  BY FS_EmptySet DEF SessionsInit
<1>2. \A u : ActiveOf(u) = {} /\ Pending(u) = {}
  BY DEF SessionsInit, ActiveOf, Pending, NoHandler
<1>3. SessionsBounded
  <2>1. \A u : Cardinality(ActiveOf(u)) = 0
    BY <1>2, FS_EmptySet
  <2>. QED
    BY <2>1, CountsAreNumbers DEF SessionsBounded
<1>. QED
  BY <1>1, <1>2, <1>3 DEF LimitInv, RoomForPending

-----------------------------------------------------------------------------
(* Theorems *)

\* CreateSession, RefreshSession, LogoutSession and the deletion of an account
\* keep the types of their rows, and the active sessions in one order of use.
THEOREM SessionsTypeCorrect == SessionsSpec => []SessionsTypeOK
<1>1. SessionInv => SessionsTypeOK
  BY DEF SessionInv
<1>. QED
  BY <1>1, SessionInvInit, SessionInvNext, PTL DEF SessionsSpec

\* A session that can be used belongs to an account that is there: the foreign
\* key and its cascade hold against every request that crosses a deletion.
THEOREM SessionsBelongToAccounts == SessionsSpec => []SessionsHaveAccounts
<1>1. SessionInv => SessionsHaveAccounts
  BY DEF SessionInv
<1>. QED
  BY <1>1, SessionInvInit, SessionInvNext, PTL DEF SessionsSpec

\* RefreshSession exchanges a token once: the row lock it took with the token
\* keeps everybody else from the row until it is written.
THEOREM RefreshExchangesOnce == SessionsSpec => TokensExchangedOnce
<1>. DEFINE Once == \A s \in Sessions : token[s] # 0 /\ token'[s] # token[s] =>
                       /\ s \in active
                       /\ \E r \in Handlers : handler[r].session = s /\ handler[r].token = token[s]
<1>1. ASSUME SessionInv, [SessionsNext]_sessionVars
      PROVE  Once
  <2>. SUFFICES ASSUME NEW s \in Sessions, token[s] # 0, token'[s] # token[s]
                PROVE  /\ s \in active
                       /\ \E r \in Handlers : handler[r].session = s /\ handler[r].token = token[s]
    OBVIOUS
  <2>1. ASSUME NEW r \in Handlers, InsertSession(r)
        PROVE  FALSE
    <3>1. FreshSession \in Sessions /\ token[FreshSession] = 0
      BY <2>1 DEF InsertSession, FreshSession
    <3>. QED
      BY <2>1, <3>1, <1>1 DEF InsertSession, SessionInv, SessionsTypeOK
  <2>2. ASSUME NEW r \in Handlers, RotateToken(r)
        PROVE  /\ s \in active
               /\ handler[r].session = s /\ handler[r].token = token[s]
    <3>1. handler[r].step = "rotating" /\ token' = [token EXCEPT ![handler[r].session] = @ + 1]
      BY <2>2 DEF RotateToken
    <3>2. handler[r].session = s
      BY <3>1, <1>1 DEF SessionInv, SessionsTypeOK
    <3>. QED
      BY <1>1, <3>1, <3>2 DEF SessionInv, RotationValid
  <2>3. CASE UNCHANGED token
    BY <2>3
  <2>4. \/ UNCHANGED token
        \/ \E r \in Handlers : InsertSession(r) \/ RotateToken(r)
    BY <1>1 DEF SessionsNext, RankSessions, RevokeOldest, SelectSession, AbortSession, ExpireSession,
       LogoutSession, DeleteAccount, sessionTables, sessionVars
  <2>. QED
    BY <2>1, <2>2, <2>3, <2>4
<1>2. TokensExchangedOnce <=> [][Once]_sessionVars
  BY DEF TokensExchangedOnce
<1>. QED
  BY <1>1, <1>2, SessionInvInit, SessionInvNext, PTL DEF SessionsSpec

\* CreateSession ranks without a lock on the account, and still an account never
\* has more sessions than the limit and one for each further creation that may
\* cross it: however often the creations cross, the surplus does not add up.
THEOREM CreationsKeepTheLimit == SessionsSpec => []SessionsBounded
<1>1. LimitInv => SessionsBounded
  BY DEF LimitInv
<1>. QED
  BY <1>1, SessionInvInit, SessionInvNext, LimitInvInit, LimitInvNext, PTL DEF SessionsSpec
=============================================================================
