---------------------------- MODULE LoginProofs ----------------------------
(* Proofs about SmsLogin: the limits on attempts, that the code tables and  *)
(* the requests implement a one-time code, and that a delivered code works. *)
(* The first rests on the advisory locks, which keep what a transaction     *)
(* counted true until it inserts; the second on the row lock, with which a  *)
(* verification looks at the code again; the third on the deadlines of a    *)
(* code request, which are shorter than the cooldown of its attempt.        *)
EXTENDS SmsLogin, FiniteSetTheorems, TLAPS

RowType == [row : {"none", "live", "consumed", "deleted"}, phone : Phones \cup {NoPhone},
            at : 0..MaxTime, pos : Nat, attempts : 0..MaxAttempts]

RequestType == [step : {"idle", "counted", "reserved", "inserted", "sent", "undelivered", "selected"},
                kind : {"none", "request", "login", "deletion"},
                phone : Phones \cup {NoPhone}, remote : Remotes \cup {NoRemote},
                code : Codes \cup {NoCode}, seen : SUBSET Codes, since : 0..MaxTime]

AttemptType == [id : 1..MaxTries, action : Actions, phone : Phones, remote : Remotes, at : 0..MaxTime]

\* A request that works has a kind, a phone and an address, and a delivery its code.
AtWork(r) == request[r].step # "idle"
RequestsComplete ==
    \A r \in Requests :
        /\ AtWork(r) => /\ request[r].kind # "none"
                        /\ request[r].phone \in Phones /\ request[r].remote \in Remotes
        /\ request[r].step \in {"inserted", "sent", "undelivered"} => request[r].code \in Codes

TablesFinite == IsFiniteSet(tries) /\ IsFiniteSet(Rows)

\* A code is exchanged at most once, and is then not live.
UsedAreSpent ==
    \A c \in Codes :
        /\ code[c].row = "none" => code[c].attempts = 0
        /\ grants[c] \in {0, 1}
        /\ grants[c] = 1 => code[c].row \in {"consumed", "deleted"}

\* Two transactions that count the same attempts do not run at once.
LocksSeparate ==
    \A q, r \in Requests :
        q # r /\ HoldsLocks(q) /\ HoldsLocks(r) /\ ActionOf(request[q].kind) = ActionOf(request[r].kind)
            => request[q].phone # request[r].phone /\ request[q].remote # request[r].remote

\* What counts against a phone, or an address, now.
PhoneTries(a, p) == OfPhone(p, Counted(a, now))
RemoteTries(a, m) == OfRemote(m, Counted(a, now))

\* Who holds the locks may insert.
CountsTrue ==
    \A r \in Requests : HoldsLocks(r) =>
        LET a == ActionOf(request[r].kind)
        IN  /\ Cardinality(PhoneTries(a, request[r].phone)) < PhoneLimit[a]
            /\ Cardinality(RemoteTries(a, request[r].remote)) < RemoteLimit[a]

\* What most steps do to the codes, and to the attempts: withdraw some, and
\* nothing that a request with locks has counted.
Spent == {"consumed", "deleted"}
Withdrawal ==
    /\ grants' = grants
    /\ \A c \in Codes : /\ code'[c].attempts = code[c].attempts
                        /\ code[c].row \in Spent => code'[c].row \in Spent
Calm ==
    /\ now' \in Nat /\ now <= now' /\ tries' \subseteq tries
    /\ \A q \in Requests : request'[q].step = "counted" => request'[q] = request[q]

LoginInv == LoginTypeOK /\ RequestsComplete /\ TablesFinite /\ UsedAreSpent

RateInv == LocksSeparate /\ CountsTrue /\ RateKept

LEMMA LoginTypes ==
    ASSUME LoginTypeOK
    PROVE  /\ code \in [Codes -> RowType] /\ request \in [Requests -> RequestType]
           /\ tries \subseteq AttemptType /\ NoRow \in RowType /\ NoRequest \in RequestType
<1>1. NoRow \in RowType /\ NoRequest \in RequestType
  BY SmsLoginAssumption DEF NoRow, NoRequest, RowType, RequestType, SmsLoginAssumption
<1>. QED
  BY <1>1 DEF LoginTypeOK, RowType, RequestType, AttemptType

-----------------------------------------------------------------------------
(* The steps in terms of what they change *)

\* A request moves on, and the rest stays.
LEMMA RequestMoves ==
    ASSUME LoginInv, NEW r \in Requests, NEW x \in RequestType,
           request' = [request EXCEPT ![r] = x],
           x.step # "idle" => x.kind # "none" /\ x.phone \in Phones /\ x.remote \in Remotes,
           x.step \in {"inserted", "sent", "undelivered"} => x.code \in Codes
    PROVE  /\ request' \in [Requests -> RequestType] /\ request'[r] = x
           /\ \A q \in Requests : q # r => request'[q] = request[q]
           /\ RequestsComplete'
<1>1. /\ request' \in [Requests -> RequestType] /\ request'[r] = x
      /\ \A q \in Requests : q # r => request'[q] = request[q]
  BY LoginTypes DEF LoginInv
<1>. QED
  BY <1>1 DEF LoginInv, RequestsComplete, AtWork

LEMMA FinishMoves ==
    ASSUME LoginInv, NEW r \in Requests, Finishes(r)
    PROVE  /\ request' \in [Requests -> RequestType] /\ request'[r] = NoRequest
           /\ \A q \in Requests : q # r => request'[q] = request[q]
           /\ RequestsComplete'
<1>1. NoRequest \in RequestType /\ NoRequest.step = "idle"
  BY LoginTypes DEF LoginInv, NoRequest
<1>. QED
  BY <1>1, RequestMoves DEF Finishes

LEMMA StepMoves ==
    ASSUME LoginInv, NEW r \in Requests, AtWork(r), NEW s \in {"reserved", "sent", "undelivered"},
           StepsTo(r, s), s # "reserved" => request[r].code \in Codes
    PROVE  /\ request' \in [Requests -> RequestType] /\ request'[r].step = s
           /\ \A q \in Requests : q # r => request'[q] = request[q]
           /\ RequestsComplete'
<1>. DEFINE x == [request[r] EXCEPT !.step = s]
<1>1. request[r] \in RequestType
  BY LoginTypes DEF LoginInv
<1>2. /\ x \in RequestType /\ x.step = s /\ x.kind = request[r].kind /\ x.phone = request[r].phone
      /\ x.remote = request[r].remote /\ x.code = request[r].code
  BY <1>1 DEF RequestType
<1>3. request' = [request EXCEPT ![r] = x]
  BY DEF StepsTo
<1>4. request[r].kind # "none" /\ request[r].phone \in Phones /\ request[r].remote \in Remotes
  BY DEF LoginInv, RequestsComplete
<1>. HIDE DEF x
<1>. QED
  BY <1>2, <1>3, <1>4, RequestMoves

\* Only the requests change.
LEMMA RequestOnly ==
    ASSUME LoginInv, request' \in [Requests -> RequestType], RequestsComplete', UNCHANGED loginTables
    PROVE  LoginInv'
<1>1. UNCHANGED <<now, users, code, tries, held, sent, grants>>
  BY DEF loginTables
<1>2. LoginTypeOK'
  BY <1>1 DEF LoginInv, LoginTypeOK, RequestType
<1>3. TablesFinite'
  BY <1>1 DEF LoginInv, TablesFinite, Rows
<1>4. UsedAreSpent'
  BY <1>1 DEF LoginInv, UsedAreSpent
<1>. QED
  BY <1>2, <1>3, <1>4 DEF LoginInv

\* The codes, the accounts and the histories change; at most one row is new.
LEMMA CodesOnly ==
    ASSUME LoginInv, request' \in [Requests -> RequestType], RequestsComplete',
           UNCHANGED <<now, tries>>, users' \subseteq Phones, held' \subseteq Codes, sent' \subseteq Codes,
           code' \in [Codes -> RowType], grants' \in [Codes -> Nat], UsedAreSpent',
           NEW n, \A c \in Codes : code'[c].row # "none" => code[c].row # "none" \/ c = n
    PROVE  LoginInv'
<1>1. LoginTypeOK'
  BY DEF LoginInv, LoginTypeOK, RequestType, RowType
<1>2. TablesFinite'
  <2>1. IsFiniteSet(Rows \cup {n}) /\ IsFiniteSet(tries)
    BY FS_AddElement DEF LoginInv, TablesFinite
  <2>2. Rows' \subseteq Rows \cup {n}
    BY DEF Rows
  <2>3. IsFiniteSet(Rows')
    BY <2>1, <2>2, FS_Subset
  <2>. QED
    BY <2>1, <2>3 DEF TablesFinite
<1>. QED
  BY <1>1, <1>2 DEF LoginInv

\* The attempts and the clock change.
LEMMA TriesOnly ==
    ASSUME LoginInv, request' \in [Requests -> RequestType], RequestsComplete',
           UNCHANGED <<users, code, held, sent, grants>>,
           now' \in 0..MaxTime, tries' \subseteq AttemptType, IsFiniteSet(tries')
    PROVE  LoginInv'
<1>1. LoginTypeOK'
  BY DEF LoginInv, LoginTypeOK, RequestType, AttemptType
<1>2. Rows' = Rows
  BY DEF Rows
<1>3. TablesFinite'
  BY <1>2 DEF LoginInv, TablesFinite
<1>4. UsedAreSpent'
  BY DEF LoginInv, UsedAreSpent
<1>. QED
  BY <1>1, <1>3, <1>4 DEF LoginInv

-----------------------------------------------------------------------------
(* Types *)

\* The attempts of one request differ in their ids: fewer than MaxTries leave
\* one free.
LEMMA FreshAttemptIsNew ==
    ASSUME LoginInv, NEW r \in Requests, HoldsLocks(r), Cardinality(tries) < MaxTries
    PROVE  /\ FreshAttempt(r) \in AttemptType
           /\ FreshAttempt(r).action = ActionOf(request[r].kind)
           /\ FreshAttempt(r).phone = request[r].phone /\ FreshAttempt(r).remote = request[r].remote
<1>1. /\ request[r] \in RequestType
      /\ request[r].phone \in Phones /\ request[r].remote \in Remotes
  BY LoginTypes DEF LoginInv, RequestsComplete, AtWork, HoldsLocks
<1>2. \E i \in 1..MaxTries : Attempt(r, i) \notin tries
  <2>. SUFFICES ASSUME \A i \in 1..MaxTries : Attempt(r, i) \in tries
                PROVE  FALSE
    OBVIOUS
  <2>. DEFINE f == [i \in 1..MaxTries |-> Attempt(r, i)]
  <2>1. MaxTries \in Nat
    BY SmsLoginAssumption DEF SmsLoginAssumption
  <2>2. IsFiniteSet(1..MaxTries) /\ Cardinality(1..MaxTries) = MaxTries
    BY <2>1, FS_Interval
  <2>3. f \in [1..MaxTries -> tries]
    OBVIOUS
  <2>4. \A i, j \in 1..MaxTries : f[i] = f[j] => i = j
    BY DEF Attempt
  <2>5. IsFiniteSet(tries)
    BY DEF LoginInv, TablesFinite
  <2>. HIDE DEF f
  <2>6. PICK i, j \in 1..MaxTries : i # j /\ f[i] = f[j]
    BY <2>2, <2>3, <2>5, FS_PigeonHole
  <2>. QED
    BY <2>4, <2>6
<1>3. PICK i \in 1..MaxTries : FreshAttempt(r) = Attempt(r, i)
  BY <1>2 DEF FreshAttempt
<1>4. ActionOf(request[r].kind) \in Actions
  BY DEF ActionOf, Actions
<1>. QED
  BY <1>1, <1>3, <1>4 DEF Attempt, AttemptType, RequestType

LEMMA CountStep ==
    ASSUME LoginInv, NEW r \in Requests, NEW k \in {"request", "login", "deletion"}, NEW p \in Phones,
           NEW m \in Remotes, NEW s \in 0..MaxTime, CountAttempts(r, k, p, m, s)
    PROVE  /\ LoginInv' /\ \A q \in Requests : q # r => request'[q] = request[q]
           /\ request'[r].kind = k /\ request'[r].phone = p /\ request'[r].remote = m
<1>. DEFINE x == [NoRequest EXCEPT !.step = "counted", !.kind = k, !.phone = p, !.remote = m, !.since = s]
<1>1. /\ x \in RequestType /\ x.step = "counted" /\ x.kind = k /\ x.phone = p /\ x.remote = m
  BY LoginTypes DEF LoginInv, RequestType, NoRequest
<1>2. request' = [request EXCEPT ![r] = x] /\ UNCHANGED loginTables
  BY DEF CountAttempts
<1>. HIDE DEF x
<1>3. /\ request' \in [Requests -> RequestType] /\ request'[r] = x
      /\ \A q \in Requests : q # r => request'[q] = request[q]
      /\ RequestsComplete'
  BY <1>1, <1>2, RequestMoves
<1>. QED
  BY <1>1, <1>2, <1>3, RequestOnly

LEMMA ReserveStep ==
    ASSUME LoginInv, NEW r \in Requests, ReserveAttempt(r)
    PROVE  LoginInv'
<1>1. AtWork(r) /\ HoldsLocks(r) /\ StepsTo(r, "reserved") /\ Cardinality(tries) < MaxTries
  BY DEF ReserveAttempt, HoldsLocks, AtWork
<1>2. request' \in [Requests -> RequestType] /\ RequestsComplete'
  BY <1>1, StepMoves
<1>3. /\ tries' = tries \cup {FreshAttempt(r)}
      /\ UNCHANGED <<now, users, code, held, sent, grants>>
  BY DEF ReserveAttempt
<1>4. tries' \subseteq AttemptType /\ IsFiniteSet(tries')
  BY <1>1, <1>3, FreshAttemptIsNew, LoginTypes, FS_AddElement DEF LoginInv, TablesFinite
<1>5. now' \in 0..MaxTime
  BY <1>3 DEF LoginInv, LoginTypeOK
<1>. QED
  BY <1>2, <1>3, <1>4, <1>5, TriesOnly

LEMMA InsertStep ==
    ASSUME LoginInv, NEW r \in Requests, InsertCode(r)
    PROVE  LoginInv' /\ Withdrawal /\ Calm
<1>. DEFINE x == [request[r] EXCEPT !.step = "inserted", !.code = FreshCode]
            y == [row |-> "live", phone |-> request[r].phone, at |-> now,
                  pos |-> Cardinality(Rows) + 1, attempts |-> 0]
<1>1. /\ request[r] \in RequestType /\ AtWork(r)
      /\ request[r].phone \in Phones /\ request[r].remote \in Remotes /\ request[r].kind # "none"
  BY LoginTypes DEF LoginInv, RequestsComplete, AtWork, InsertCode
<1>2. FreshCode \in Codes /\ code[FreshCode].row = "none"
  BY DEF InsertCode, FreshCode, Rows
<1>3. Cardinality(Rows) \in Nat
  BY FS_CardinalityType DEF LoginInv, TablesFinite
<1>4. y \in RowType /\ y.row = "live" /\ y.attempts = 0
  <2>1. 0 \in 0..MaxAttempts
    BY SmsLoginAssumption DEF SmsLoginAssumption
  <2>2. now \in 0..MaxTime
    BY DEF LoginInv, LoginTypeOK
  <2>3. Cardinality(Rows) + 1 \in Nat
    BY <1>3
  <2>. QED
    BY <1>1, <2>1, <2>2, <2>3 DEF RowType
<1>5. /\ x \in RequestType /\ x.step = "inserted" /\ x.kind = request[r].kind
      /\ x.phone = request[r].phone /\ x.remote = request[r].remote /\ x.code = FreshCode
  BY <1>1, <1>2 DEF RequestType
<1>6. /\ request' = [request EXCEPT ![r] = x] /\ code' = [code EXCEPT ![FreshCode] = y]
      /\ UNCHANGED <<now, users, tries, held, sent, grants>>
  BY DEF InsertCode
<1>. HIDE DEF x, y
<1>7. /\ request' \in [Requests -> RequestType] /\ request'[r] = x
      /\ \A q \in Requests : q # r => request'[q] = request[q]
      /\ RequestsComplete'
  BY <1>1, <1>2, <1>5, <1>6, RequestMoves
<1>8. /\ code' \in [Codes -> RowType] /\ code'[FreshCode] = y
      /\ \A c \in Codes : c # FreshCode => code'[c] = code[c]
  BY <1>2, <1>4, <1>6, LoginTypes DEF LoginInv
<1>9. UsedAreSpent'
  BY <1>2, <1>4, <1>6, <1>8 DEF LoginInv, UsedAreSpent
<1>10. Withdrawal
  BY <1>2, <1>4, <1>6, <1>8 DEF LoginInv, UsedAreSpent, Withdrawal, Spent
<1>11. Calm
  BY <1>5, <1>6, <1>7, SmsLoginAssumption DEF Calm, LoginInv, LoginTypeOK, SmsLoginAssumption
<1>12. /\ users' \subseteq Phones /\ held' \subseteq Codes /\ sent' \subseteq Codes
       /\ grants' \in [Codes -> Nat]
  BY <1>6 DEF LoginInv, LoginTypeOK
<1>. QED
  BY <1>6, <1>7, <1>8, <1>9, <1>10, <1>11, <1>12, CodesOnly

LEMMA SendLoginStep ==
    ASSUME LoginInv, NEW r \in Requests, SendLoginCode(r)
    PROVE  LoginInv' /\ Withdrawal /\ Calm
<1>1. AtWork(r) /\ request[r].code \in Codes
  BY DEF SendLoginCode, AtWork, LoginInv, RequestsComplete
<1>2. PICK s \in {"sent", "undelivered"} : StepsTo(r, s)
  BY DEF SendLoginCode
<1>3. /\ request' \in [Requests -> RequestType] /\ request'[r].step = s
      /\ \A q \in Requests : q # r => request'[q] = request[q]
      /\ RequestsComplete'
  BY <1>1, <1>2, StepMoves
<1>4. UNCHANGED <<now, users, code, tries, grants>>
  BY DEF SendLoginCode
<1>5. held' \subseteq Codes /\ sent' \subseteq Codes
  BY <1>1 DEF SendLoginCode, DeliveredOrNot, LoginInv, LoginTypeOK
<1>6. UsedAreSpent'
  BY <1>4 DEF LoginInv, UsedAreSpent
<1>7. Withdrawal
  BY <1>4 DEF Withdrawal
<1>8. Calm
  BY <1>2, <1>3, <1>4, SmsLoginAssumption DEF Calm, LoginInv, LoginTypeOK, SmsLoginAssumption
<1>9. code' \in [Codes -> RowType] /\ grants' \in [Codes -> Nat] /\ users' \subseteq Phones
  BY <1>4, LoginTypes DEF LoginInv, LoginTypeOK
<1>. QED
  BY <1>3, <1>4, <1>5, <1>6, <1>7, <1>8, <1>9, CodesOnly

\* A request ends, and rows were taken out of use.
LEMMA SpendingStep ==
    ASSUME LoginInv, NEW r \in Requests, Finishes(r) \/ UNCHANGED request,
           code' \in [Codes -> RowType],
           \A c \in Codes : code'[c] = code[c] \/
               (/\ code'[c].row \in Spent /\ code'[c].attempts = code[c].attempts
                /\ code[c].row # "none" \/ code[c].attempts = 0
                /\ code[c].row # "none" \/ c = request[r].code),
           UNCHANGED <<now, users, tries, held, sent, grants>>
    PROVE  LoginInv' /\ Withdrawal /\ Calm
<1>1. request' \in [Requests -> RequestType] /\ RequestsComplete'
  <2>1. CASE Finishes(r)
    BY <2>1, FinishMoves
  <2>2. CASE UNCHANGED request
    BY <2>2, LoginTypes DEF LoginInv, RequestsComplete, AtWork
  <2>. QED
    BY <2>1, <2>2
<1>2. Calm
  <2>1. now \in Nat
    BY SmsLoginAssumption DEF LoginInv, LoginTypeOK, SmsLoginAssumption
  <2>2. CASE Finishes(r)
    <3>1. request'[r].step # "counted" /\ \A q \in Requests : q # r => request'[q] = request[q]
      BY <2>2, FinishMoves DEF NoRequest
    <3>. QED
      BY <2>1, <3>1 DEF Calm
  <2>3. CASE UNCHANGED request
    BY <2>1, <2>3 DEF Calm
  <2>. QED
    BY <2>2, <2>3
<1>3. UsedAreSpent'
  BY DEF LoginInv, UsedAreSpent, Spent
<1>4. Withdrawal
  BY DEF Withdrawal, Spent
<1>5. /\ users' \subseteq Phones /\ held' \subseteq Codes /\ sent' \subseteq Codes
      /\ grants' \in [Codes -> Nat]
  BY DEF LoginInv, LoginTypeOK
<1>6. \A c \in Codes : code'[c].row # "none" => code[c].row # "none" \/ c = request[r].code
  OBVIOUS
<1>. QED
  BY <1>1, <1>2, <1>3, <1>4, <1>5, <1>6, CodesOnly

LEMMA SpentRows ==
    ASSUME LoginInv, NEW c \in Codes, NEW s \in Spent
    PROVE  /\ [code[c] EXCEPT !.row = s] \in RowType
           /\ [code[c] EXCEPT !.row = s].row = s
           /\ [code[c] EXCEPT !.row = s].attempts = code[c].attempts
<1>1. code[c] \in RowType
  BY LoginTypes DEF LoginInv
<1>. QED
  BY <1>1 DEF RowType, Spent

LEMMA WithdrawingSteps ==
    ASSUME LoginInv, NEW r \in Requests, CleanupSMSCode(r) \/ InvalidateOlderSMSCodes(r)
    PROVE  LoginInv' /\ Withdrawal /\ Calm
<1>0. code \in [Codes -> RowType]
  BY LoginTypes DEF LoginInv
<1>1. Finishes(r) /\ UNCHANGED <<now, users, tries, held, sent, grants>>
  BY DEF CleanupSMSCode, InvalidateOlderSMSCodes
<1>2. CASE CleanupSMSCode(r)
  <2>. DEFINE o == request[r].code  y == [code[o] EXCEPT !.row = "deleted"]
  <2>1. o \in Codes
    BY <1>2 DEF CleanupSMSCode, LoginInv, RequestsComplete
  <2>2. y \in RowType /\ y.row = "deleted" /\ y.attempts = code[o].attempts
    BY <2>1, SpentRows DEF Spent
  <2>3. code' = code \/ code' = [code EXCEPT ![o] = y]
    BY <1>2 DEF CleanupSMSCode
  <2>. HIDE DEF y
  <2>4. code[o].row # "none" \/ code[o].attempts = 0
    BY <2>1 DEF LoginInv, UsedAreSpent
  <2>5. /\ code' \in [Codes -> RowType]
        /\ \A c \in Codes : code'[c] = code[c] \/
              (/\ code'[c].row \in Spent /\ code'[c].attempts = code[c].attempts
               /\ code[c].row # "none" \/ code[c].attempts = 0
               /\ code[c].row # "none" \/ c = o)
    BY <1>0, <2>1, <2>2, <2>3, <2>4 DEF Spent
  <2>. QED
    BY <1>1, <2>5, SpendingStep
<1>3. CASE InvalidateOlderSMSCodes(r)
  <2>. DEFINE w == Withdrawn(request[r].phone, request[r].code)
  <2>1. \A c \in Codes : /\ [code[c] EXCEPT !.row = "consumed"] \in RowType
                         /\ [code[c] EXCEPT !.row = "consumed"].row = "consumed"
                         /\ [code[c] EXCEPT !.row = "consumed"].attempts = code[c].attempts
    BY SpentRows DEF Spent
  <2>2. w \in [Codes -> RowType]
    BY <1>0, <2>1 DEF Withdrawn
  <2>3. \A c \in Codes : w[c] = code[c] \/
            (w[c] = [code[c] EXCEPT !.row = "consumed"] /\ code[c].row = "live")
    BY DEF Withdrawn, Live
  <2>4. code' = code \/ code' = w
    BY <1>3 DEF InvalidateOlderSMSCodes
  <2>. HIDE DEF w
  <2>5. code' \in [Codes -> RowType]
    BY <1>0, <2>2, <2>4
  <2>6. \A c \in Codes : code'[c] = code[c] \/
            (/\ code'[c].row \in Spent /\ code'[c].attempts = code[c].attempts
             /\ code[c].row # "none" \/ code[c].attempts = 0
             /\ code[c].row # "none" \/ c = request[r].code)
    <3>. SUFFICES ASSUME NEW c \in Codes, code'[c] # code[c]
                  PROVE  /\ code'[c].row \in Spent /\ code'[c].attempts = code[c].attempts
                         /\ code[c].row # "none"
      OBVIOUS
    <3>1. code'[c] = [code[c] EXCEPT !.row = "consumed"] /\ code[c].row = "live"
      BY <2>3, <2>4
    <3>. QED
      BY <2>1, <3>1 DEF Spent
  <2>. QED
    BY <1>1, <2>5, <2>6, SpendingStep
<1>. QED
  BY <1>2, <1>3

LEMMA SelectStep ==
    ASSUME LoginInv, NEW r \in Requests, NEW g \in Codes \cup {NoCode}, SelectCodes(r, g)
    PROVE  LoginInv' /\ Withdrawal /\ Calm
<1>. DEFINE seen == {c \in Live(request[r].phone) : ~Expired(c)}
            x == [request[r] EXCEPT !.step = "selected", !.code = g, !.seen = seen]
<1>1. /\ request[r] \in RequestType /\ AtWork(r)
      /\ request[r].phone \in Phones /\ request[r].remote \in Remotes /\ request[r].kind # "none"
  BY LoginTypes DEF LoginInv, RequestsComplete, AtWork, SelectCodes
<1>2. seen \subseteq Codes
  BY DEF Live
<1>3. request' = [request EXCEPT ![r] = x] /\ UNCHANGED loginTables
  BY DEF SelectCodes
<1>. HIDE DEF seen
<1>4. /\ x \in RequestType /\ x.step = "selected" /\ x.kind = request[r].kind
      /\ x.phone = request[r].phone /\ x.remote = request[r].remote
  BY <1>1, <1>2 DEF RequestType
<1>. HIDE DEF x
<1>5. /\ request' \in [Requests -> RequestType] /\ request'[r] = x
      /\ \A q \in Requests : q # r => request'[q] = request[q]
      /\ RequestsComplete'
  BY <1>1, <1>3, <1>4, RequestMoves
<1>6. Calm
  BY <1>3, <1>4, <1>5, SmsLoginAssumption DEF Calm, loginTables, LoginInv, LoginTypeOK, SmsLoginAssumption
<1>7. Withdrawal
  BY <1>3 DEF Withdrawal, loginTables
<1>. QED
  BY <1>3, <1>5, <1>6, <1>7, RequestOnly

\* A request that ends and changes nothing else.
LEMMA EndStep ==
    ASSUME LoginInv, NEW r \in Requests, Finishes(r), UNCHANGED loginTables
    PROVE  LoginInv' /\ Withdrawal /\ Calm
<1>1. code \in [Codes -> RowType]
  BY LoginTypes DEF LoginInv
<1>2. UNCHANGED <<now, users, code, tries, held, sent, grants>>
  BY DEF loginTables
<1>. QED
  BY <1>1, <1>2, SpendingStep

\* A guess is compared with a code that is live and stands another one.
LEMMA GuessedCode ==
    ASSUME LoginInv, NEW r \in Requests, NEW c \in Codes, Guessable(r, c)
    PROVE  code[c].row = "live" /\ code[c].attempts < MaxAttempts /\ grants[c] = 0
BY DEF Guessable, IsNewest, Lockable, LoginInv, UsedAreSpent

LEMMA WrongStep ==
    ASSUME LoginInv, NEW r \in Requests, NEW c \in Codes, RecordWrongGuess(r, c)
    PROVE  LoginInv' /\ Calm
<1>. DEFINE y == [code[c] EXCEPT !.attempts = @ + 1]
<1>1. /\ code[c].row = "live" /\ code[c].attempts < MaxAttempts /\ Finishes(r)
      /\ UNCHANGED <<now, users, tries, held, sent, grants>>
  BY GuessedCode DEF RecordWrongGuess
<1>2. code[c] \in RowType /\ MaxAttempts \in Nat
  BY LoginTypes, SmsLoginAssumption DEF LoginInv, SmsLoginAssumption
<1>3. y \in RowType /\ y.row = "live"
  <2>1. code[c].attempts + 1 \in 0..MaxAttempts
    BY <1>1, <1>2 DEF RowType
  <2>. QED
    BY <1>1, <1>2, <2>1 DEF RowType
<1>4. code' = [code EXCEPT ![c] = y]
  BY DEF RecordWrongGuess
<1>. HIDE DEF y
<1>5. /\ code' \in [Codes -> RowType] /\ code'[c] = y
      /\ \A d \in Codes : d # c => code'[d] = code[d]
  BY <1>3, <1>4, LoginTypes DEF LoginInv
<1>6. /\ request' \in [Requests -> RequestType] /\ RequestsComplete'
      /\ request'[r].step # "counted" /\ \A q \in Requests : q # r => request'[q] = request[q]
  BY <1>1, FinishMoves DEF NoRequest
<1>7. UsedAreSpent'
  BY <1>1, <1>3, <1>5 DEF LoginInv, UsedAreSpent
<1>8. Calm
  BY <1>1, <1>6, SmsLoginAssumption DEF Calm, LoginInv, LoginTypeOK, SmsLoginAssumption
<1>9. /\ users' \subseteq Phones /\ held' \subseteq Codes /\ sent' \subseteq Codes
      /\ grants' \in [Codes -> Nat]
  BY <1>1 DEF LoginInv, LoginTypeOK
<1>. QED
  BY <1>1, <1>3, <1>5, <1>6, <1>7, <1>8, <1>9, CodesOnly

LEMMA ExchangeStep ==
    ASSUME LoginInv, NEW r \in Requests, NEW c \in Codes, LogIn(r, c) \/ ConfirmDeletion(r, c)
    PROVE  LoginInv' /\ Calm
<1>. DEFINE y == [code[c] EXCEPT !.row = "consumed"]
<1>1. Exchange(r, c)
  BY DEF LogIn, ConfirmDeletion
<1>2. /\ code[c].row = "live" /\ grants[c] = 0 /\ Finishes(r)
      /\ code' = [code EXCEPT ![c] = y] /\ grants' = [grants EXCEPT ![c] = @ + 1]
      /\ UNCHANGED <<now, tries, held, sent>>
  BY <1>1, GuessedCode DEF Exchange
<1>3. y \in RowType /\ y.row = "consumed" /\ y.attempts = code[c].attempts
  BY SpentRows DEF Spent
<1>. HIDE DEF y
<1>4. /\ code' \in [Codes -> RowType] /\ code'[c] = y
      /\ \A d \in Codes : d # c => code'[d] = code[d]
  BY <1>2, <1>3, LoginTypes DEF LoginInv
<1>5. /\ grants' \in [Codes -> Nat] /\ grants'[c] = 1
      /\ \A d \in Codes : d # c => grants'[d] = grants[d]
  BY <1>2 DEF LoginInv, LoginTypeOK
<1>6. /\ request' \in [Requests -> RequestType] /\ RequestsComplete'
      /\ request'[r].step # "counted" /\ \A q \in Requests : q # r => request'[q] = request[q]
  BY <1>2, FinishMoves DEF NoRequest
<1>7. UsedAreSpent'
  BY <1>2, <1>3, <1>4, <1>5 DEF LoginInv, UsedAreSpent
<1>8. Calm
  BY <1>2, <1>6, SmsLoginAssumption DEF Calm, LoginInv, LoginTypeOK, SmsLoginAssumption
<1>9. request[r].phone \in Phones
  BY <1>1 DEF Exchange, Guessable, LoginInv, RequestsComplete, AtWork
<1>10. users' \subseteq Phones /\ held' \subseteq Codes /\ sent' \subseteq Codes
  BY <1>2, <1>9 DEF LogIn, ConfirmDeletion, LoginInv, LoginTypeOK
<1>. QED
  BY <1>2, <1>3, <1>4, <1>5, <1>6, <1>7, <1>8, <1>10, CodesOnly

LEMMA PruneCodesStep ==
    ASSUME LoginInv, PruneCodes
    PROVE  LoginInv' /\ Withdrawal /\ Calm
<1>. DEFINE old == {c \in Rows : code[c].row # "deleted" /\ code[c].at + CodeLife + CodeRetention < now}
            w == [c \in Codes |-> IF c \in old THEN [code[c] EXCEPT !.row = "deleted"] ELSE code[c]]
<1>0. code \in [Codes -> RowType]
  BY LoginTypes DEF LoginInv
<1>1. \A c \in Codes : /\ [code[c] EXCEPT !.row = "deleted"] \in RowType
                       /\ [code[c] EXCEPT !.row = "deleted"].row = "deleted"
                       /\ [code[c] EXCEPT !.row = "deleted"].attempts = code[c].attempts
  BY SpentRows DEF Spent
<1>2. /\ code' = w /\ UNCHANGED <<now, users, tries, request, held, sent, grants>>
  BY DEF PruneCodes
<1>3. \A c \in old : c \in Codes /\ code[c].row # "none"
  BY DEF Rows
<1>. HIDE DEF old
<1>4. code' \in [Codes -> RowType]
  BY <1>0, <1>1, <1>2
<1>5. ASSUME NEW c \in Codes, code'[c] # code[c]
      PROVE  code'[c].row \in Spent /\ code'[c].attempts = code[c].attempts /\ code[c].row # "none"
  <2>1. code'[c] = [code[c] EXCEPT !.row = "deleted"] /\ c \in old
    BY <1>2, <1>5
  <2>. QED
    BY <1>1, <1>3, <2>1 DEF Spent
<1>6. request' \in [Requests -> RequestType] /\ RequestsComplete'
  BY <1>2, LoginTypes DEF LoginInv, RequestsComplete, AtWork
<1>7. UsedAreSpent'
  BY <1>2, <1>5 DEF LoginInv, UsedAreSpent, Spent
<1>8. Withdrawal
  BY <1>2, <1>5 DEF Withdrawal
<1>9. Calm
  BY <1>2, SmsLoginAssumption DEF Calm, LoginInv, LoginTypeOK, SmsLoginAssumption
<1>10. /\ users' \subseteq Phones /\ held' \subseteq Codes /\ sent' \subseteq Codes
       /\ grants' \in [Codes -> Nat]
  BY <1>2 DEF LoginInv, LoginTypeOK
<1>11. \A c \in Codes : code'[c].row # "none" => code[c].row # "none" \/ c = NoCode
  BY <1>5
<1>. QED
  BY <1>2, <1>4, <1>6, <1>7, <1>8, <1>9, <1>10, <1>11, CodesOnly

\* Attempts are forgotten, and time passes.
LEMMA TimeSteps ==
    ASSUME LoginInv, PruneAttempts \/ Tick
    PROVE  LoginInv' /\ Withdrawal /\ Calm
<1>1. UNCHANGED <<users, code, request, held, sent, grants>> /\ tries' \subseteq tries
  BY DEF PruneAttempts, Tick
<1>2. now \in 0..MaxTime /\ MaxTime \in Nat
  BY SmsLoginAssumption DEF LoginInv, LoginTypeOK, SmsLoginAssumption
<1>3. now' \in 0..MaxTime /\ now <= now'
  BY <1>2 DEF PruneAttempts, Tick
<1>4. request' \in [Requests -> RequestType] /\ RequestsComplete'
  BY <1>1, LoginTypes DEF LoginInv, RequestsComplete, AtWork
<1>5. tries' \subseteq AttemptType /\ IsFiniteSet(tries')
  BY <1>1, LoginTypes, FS_Subset DEF LoginInv, TablesFinite
<1>6. Withdrawal
  BY <1>1 DEF Withdrawal
<1>7. Calm
  BY <1>1, <1>2, <1>3 DEF Calm
<1>. QED
  BY <1>1, <1>3, <1>4, <1>5, <1>6, <1>7, TriesOnly

-----------------------------------------------------------------------------
(* Every step *)

\* A step counts, reserves, compares with a code, or is calm and withdraws at
\* most.
LEMMA LoginStep ==
    ASSUME LoginInv, LoginNext
    PROVE  /\ LoginInv'
           /\ \/ Withdrawal /\ Calm
              \/ \E r \in Requests, k \in {"request", "login", "deletion"}, p \in Phones,
                    m \in Remotes, s \in 0..MaxTime : CountAttempts(r, k, p, m, s)
              \/ \E r \in Requests : ReserveAttempt(r)
              \/ \E r \in Requests, c \in Codes :
                    Calm /\ (RecordWrongGuess(r, c) \/ LogIn(r, c) \/ ConfirmDeletion(r, c))
<1>1. ASSUME NEW r \in Requests, LimitedRequest(r) \/ LimitedVerify(r)
      PROVE  /\ LoginInv'
             /\ \E k \in {"request", "login", "deletion"}, p \in Phones, m \in Remotes,
                   s \in 0..MaxTime : CountAttempts(r, k, p, m, s)
  BY <1>1, CountStep DEF LimitedRequest, LimitedVerify
<1>2. ASSUME NEW r \in Requests, ReserveAttempt(r)
      PROVE  LoginInv'
  BY <1>2, ReserveStep
<1>3. ASSUME NEW r \in Requests, RequestSMSCode(r)
      PROVE  LoginInv' /\ Withdrawal /\ Calm
  BY <1>3, InsertStep, SendLoginStep, WithdrawingSteps DEF RequestSMSCode
<1>4. ASSUME NEW r \in Requests, RefuseGuess(r) \/ AbortLogin(r)
      PROVE  LoginInv' /\ Withdrawal /\ Calm
  BY <1>4, EndStep DEF RefuseGuess, AbortLogin
<1>5. ASSUME NEW r \in Requests, NEW g \in Guesses(request[r].phone), SelectCodes(r, g)
      PROVE  LoginInv' /\ Withdrawal /\ Calm
  <2>1. g \in Codes \cup {NoCode}
    BY DEF Guesses, LoginInv, LoginTypeOK
  <2>. QED
    BY <1>5, <2>1, SelectStep
<1>6. ASSUME NEW r \in Requests, NEW c \in Codes,
             RecordWrongGuess(r, c) \/ LogIn(r, c) \/ ConfirmDeletion(r, c)
      PROVE  LoginInv' /\ Calm
  BY <1>6, WrongStep, ExchangeStep
<1>7. ASSUME NEW r \in Requests, LoginRequest(r)
      PROVE  \/ LimitedRequest(r) \/ LimitedVerify(r) \/ ReserveAttempt(r) \/ RequestSMSCode(r)
             \/ RefuseGuess(r) \/ AbortLogin(r)
             \/ \E g \in Guesses(request[r].phone) : SelectCodes(r, g)
             \/ \E c \in Codes : RecordWrongGuess(r, c) \/ LogIn(r, c) \/ ConfirmDeletion(r, c)
  BY <1>7 DEF LoginRequest, VerifySMSCode, VerifyAccountDeletionSMSCode
<1>8. CASE PruneAttempts \/ PruneCodes \/ Tick
  BY <1>8, PruneCodesStep, TimeSteps
<1>9. CASE \E r \in Requests : LoginRequest(r)
  <2>1. PICK r \in Requests : LoginRequest(r)
    BY <1>9
  <2>2. CASE LimitedRequest(r) \/ LimitedVerify(r)
    BY <1>1, <2>2
  <2>3. CASE ReserveAttempt(r)
    BY <1>2, <2>3
  <2>4. CASE RequestSMSCode(r) \/ RefuseGuess(r) \/ AbortLogin(r)
    BY <1>3, <1>4, <2>4
  <2>5. CASE \E g \in Guesses(request[r].phone) : SelectCodes(r, g)
    BY <1>5, <2>5
  <2>6. CASE \E c \in Codes : RecordWrongGuess(r, c) \/ LogIn(r, c) \/ ConfirmDeletion(r, c)
    BY <1>6, <2>6
  <2>. QED
    BY <1>7, <2>1, <2>2, <2>3, <2>4, <2>5, <2>6
<1>. QED
  BY <1>8, <1>9 DEF LoginNext

LEMMA LoginInvInit ==
    ASSUME LoginInit
    PROVE  LoginInv
<1>1. /\ \A c \in Codes : code[c].row = "none" /\ code[c].attempts = 0 /\ grants[c] = 0
      /\ \A r \in Requests : request[r].step = "idle"
  BY DEF LoginInit, NoRow, NoRequest
<1>2. Rows = {} /\ tries = {}
  BY <1>1 DEF Rows, LoginInit
<1>3. TablesFinite
  BY <1>2, FS_EmptySet DEF TablesFinite
<1>4. NoRow \in RowType /\ NoRequest \in RequestType
  BY SmsLoginAssumption DEF NoRow, NoRequest, RowType, RequestType, SmsLoginAssumption
<1>5. LoginTypeOK
  BY <1>4, SmsLoginAssumption DEF LoginInit, LoginTypeOK, RowType, RequestType, SmsLoginAssumption
<1>. QED
  BY <1>1, <1>3, <1>5 DEF LoginInv, RequestsComplete, AtWork, UsedAreSpent

LEMMA LoginInvNext ==
    ASSUME LoginInv, [LoginNext]_loginVars
    PROVE  LoginInv'
<1>1. CASE UNCHANGED loginVars
  <2>1. request' \in [Requests -> RequestType] /\ RequestsComplete' /\ UNCHANGED loginTables
    BY <1>1, LoginTypes DEF loginVars, LoginInv, RequestsComplete, AtWork
  <2>. QED
    BY <2>1, RequestOnly
<1>. QED
  BY <1>1, LoginStep

\* The tables and the requests keep their types, and no code is compared with
\* more wrong guesses than MaxAttempts.
THEOREM LoginTypeCorrect == LoginSpec => []LoginTypeOK
<1>1. LoginInv => LoginTypeOK
  BY DEF LoginInv
<1>. QED
  BY <1>1, LoginInvInit, LoginInvNext, PTL DEF LoginSpec

-----------------------------------------------------------------------------
(* The one-time code *)

Void == {c \in Codes : code[c].row \in Spent /\ grants[c] = 0}
Wrong == [c \in Codes |-> code[c].attempts]

\* Codes that are withdrawn had not been exchanged.
LEMMA WithdrawalRefines ==
    ASSUME LoginInv, Withdrawal
    PROVE  OneTime!Withdraw
<1>1. /\ Wrong' = Wrong /\ grants' = grants
  BY DEF Withdrawal, Wrong
<1>2. Void \subseteq Void'
  BY DEF Void, Withdrawal
<1>3. Void' \ Void \subseteq {c \in Codes : c \notin Void /\ grants[c] = 0}
  BY <1>1 DEF Void
<1>4. Void' = Void \cup (Void' \ Void)
  BY <1>2
<1>5. \E C \in SUBSET {c \in Codes : c \notin Void /\ grants[c] = 0} : Void' = Void \cup C
  BY <1>3, <1>4
<1>. QED
  BY <1>1, <1>5 DEF OneTime!Withdraw, OneTime!Open, Void, Wrong, Spent

LEMMA WrongGuessRefines ==
    ASSUME LoginInv, NEW r \in Requests, NEW c \in Codes, RecordWrongGuess(r, c)
    PROVE  OneTime!Reject(c)
<1>1. code[c].row = "live" /\ code[c].attempts < MaxAttempts /\ grants[c] = 0
  BY GuessedCode DEF RecordWrongGuess
<1>2. code' = [code EXCEPT ![c].attempts = @ + 1] /\ grants' = grants
  BY DEF RecordWrongGuess
<1>3. /\ \A d \in Codes : code'[d].row = code[d].row
      /\ \A d \in Codes : code'[d].attempts = IF d = c THEN code[c].attempts + 1 ELSE code[d].attempts
  BY <1>2, LoginTypes DEF LoginInv, RowType
<1>4. Void' = Void /\ c \notin Void
  BY <1>1, <1>2, <1>3 DEF Void, Spent
<1>5. Wrong' = [Wrong EXCEPT ![c] = @ + 1] /\ Wrong[c] < MaxAttempts
  BY <1>1, <1>3 DEF Wrong
<1>. QED
  BY <1>1, <1>2, <1>4, <1>5 DEF OneTime!Reject, OneTime!Open, Void, Wrong, Spent

LEMMA ExchangeRefines ==
    ASSUME LoginInv, NEW r \in Requests, NEW c \in Codes, LogIn(r, c) \/ ConfirmDeletion(r, c)
    PROVE  OneTime!Accept(c)
<1>1. Exchange(r, c)
  BY DEF LogIn, ConfirmDeletion
<1>2. code[c].row = "live" /\ code[c].attempts < MaxAttempts /\ grants[c] = 0
  BY <1>1, GuessedCode DEF Exchange
<1>3. code' = [code EXCEPT ![c].row = "consumed"] /\ grants' = [grants EXCEPT ![c] = @ + 1]
  BY <1>1 DEF Exchange
<1>4. /\ \A d \in Codes : code'[d].attempts = code[d].attempts
      /\ \A d \in Codes : d # c => code'[d].row = code[d].row
      /\ \A d \in Codes : grants'[d] = IF d = c THEN 1 ELSE grants[d]
      /\ grants' = [grants EXCEPT ![c] = 1]
  BY <1>2, <1>3, LoginTypes DEF LoginInv, LoginTypeOK, RowType
<1>5. Void' = Void /\ c \notin Void
  BY <1>2, <1>4 DEF Void, Spent
<1>6. Wrong' = Wrong /\ Wrong[c] < MaxAttempts
  BY <1>2, <1>4 DEF Wrong
<1>. QED
  BY <1>2, <1>4, <1>5, <1>6 DEF OneTime!Accept, OneTime!Open, Void, Wrong, Spent

LEMMA CalmRefines ==
    ASSUME LoginInv, UNCHANGED <<code, grants>>
    PROVE  UNCHANGED OneTime!vars
BY DEF OneTime!vars

\* Whatever crosses, a code opens one door once, stands MaxAttempts wrong guesses
\* at most and is void for good once a newer code, a failed delivery or pruning
\* withdrew it.
THEOREM LoginImplementsOneTimeCode == LoginSpec => OneTimeSpec
<1>1. LoginInit => OneTime!Init
  <2>. SUFFICES ASSUME LoginInit
                PROVE  OneTime!Init
    OBVIOUS
  <2>1. code = [c \in Codes |-> NoRow] /\ grants = [c \in Codes |-> 0]
    BY DEF LoginInit
  <2>2. Wrong = [c \in Codes |-> 0] /\ Void = {}
    BY <2>1 DEF NoRow, Wrong, Void, Spent
  <2>. QED
    BY <2>1, <2>2 DEF OneTime!Init, Wrong, Void, Spent
<1>2. LoginInv /\ [LoginNext]_loginVars => [OneTime!Next]_(OneTime!vars)
  <2>. SUFFICES ASSUME LoginInv, [LoginNext]_loginVars
                PROVE  [OneTime!Next]_(OneTime!vars)
    OBVIOUS
  <2>1. CASE Withdrawal
    BY <2>1, WithdrawalRefines DEF OneTime!Next
  <2>2. CASE UNCHANGED <<code, grants>>
    BY <2>2, CalmRefines
  <2>3. ASSUME NEW r \in Requests, NEW c \in Codes,
               RecordWrongGuess(r, c) \/ LogIn(r, c) \/ ConfirmDeletion(r, c)
        PROVE  OneTime!Next
    BY <2>3, WrongGuessRefines, ExchangeRefines DEF OneTime!Next
  <2>4. CASE UNCHANGED loginVars
    BY <2>2, <2>4 DEF loginVars, loginTables
  <2>5. CASE LoginNext
    <3>1. CASE \/ \E r \in Requests, k \in {"request", "login", "deletion"}, p \in Phones,
                    m \in Remotes, s \in 0..MaxTime : CountAttempts(r, k, p, m, s)
               \/ \E r \in Requests : ReserveAttempt(r)
      BY <2>2, <3>1 DEF CountAttempts, ReserveAttempt, loginTables
    <3>. QED
      BY <2>1, <2>3, <2>5, <3>1, LoginStep
  <2>. QED
    BY <2>4, <2>5
<1>. QED
  BY <1>1, <1>2, LoginInvInit, LoginInvNext, PTL DEF LoginSpec, OneTimeSpec, OneTime!Spec

-----------------------------------------------------------------------------
(* The limits on attempts *)

\* What counts now is among what a transaction that began before counts.
LEMMA FewerCountLater ==
    ASSUME LoginInv, NEW a \in Actions, NEW s \in Nat, s <= now
    PROVE  Counted(a, now) \subseteq Counted(a, s)
<1>1. now \in Nat /\ Window[a] \in Nat
  BY SmsLoginAssumption DEF LoginInv, LoginTypeOK, SmsLoginAssumption
<1>2. \A t \in tries : t.at \in Nat
  BY SmsLoginAssumption, LoginTypes DEF LoginInv, AttemptType, SmsLoginAssumption
<1>. QED
  BY <1>1, <1>2 DEF Counted

LEMMA CountedFinite ==
    ASSUME LoginInv, NEW S \in SUBSET tries, NEW T \in SUBSET S
    PROVE  /\ IsFiniteSet(S) /\ IsFiniteSet(T)
           /\ Cardinality(S) \in Nat /\ Cardinality(T) \in Nat /\ Cardinality(T) <= Cardinality(S)
BY FS_Subset, FS_CardinalityType DEF LoginInv, TablesFinite

\* In a calm step the counts only go down.
LEMMA CalmCounts ==
    ASSUME LoginInv, Calm, NEW a \in Actions
    PROVE  /\ \A p : PhoneTries(a, p)' \subseteq PhoneTries(a, p)
           /\ \A m : RemoteTries(a, m)' \subseteq RemoteTries(a, m)
<1>1. now \in Nat /\ now' \in Nat /\ now <= now' /\ tries' \subseteq tries /\ Window[a] \in Nat
  BY SmsLoginAssumption DEF Calm, LoginInv, LoginTypeOK, SmsLoginAssumption
<1>2. \A t \in tries : t.at \in Nat
  BY SmsLoginAssumption, LoginTypes DEF LoginInv, AttemptType, SmsLoginAssumption
<1>3. Counted(a, now)' \subseteq Counted(a, now)
  BY <1>1, <1>2 DEF Counted
<1>. QED
  BY <1>3 DEF PhoneTries, RemoteTries, OfPhone, OfRemote

LEMMA TriesAreTries ==
    ASSUME NEW a
    PROVE  /\ \A p : PhoneTries(a, p) \subseteq tries
           /\ \A m : RemoteTries(a, m) \subseteq tries
BY DEF PhoneTries, RemoteTries, OfPhone, OfRemote, Counted

LEMMA CalmCardinalities ==
    ASSUME LoginInv, Calm, NEW a \in Actions
    PROVE  /\ \A p : /\ Cardinality(PhoneTries(a, p)) \in Nat
                     /\ Cardinality(PhoneTries(a, p)') \in Nat
                     /\ Cardinality(PhoneTries(a, p)') <= Cardinality(PhoneTries(a, p))
           /\ \A m : /\ Cardinality(RemoteTries(a, m)) \in Nat
                     /\ Cardinality(RemoteTries(a, m)') \in Nat
                     /\ Cardinality(RemoteTries(a, m)') <= Cardinality(RemoteTries(a, m))
BY CalmCounts, TriesAreTries, CountedFinite

LEMMA LimitsAreNumbers ==
    ASSUME NEW a \in Actions
    PROVE  PhoneLimit[a] \in Nat /\ RemoteLimit[a] \in Nat
BY SmsLoginAssumption DEF SmsLoginAssumption

LEMMA ActionsOf == \A k : ActionOf(k) \in Actions
BY DEF ActionOf, Actions

LEMMA RateCalm ==
    ASSUME LoginInv, RateInv, Calm
    PROVE  RateInv'
<1>. USE DEF RateInv
<1>1. LocksSeparate'
  BY DEF Calm, LocksSeparate, HoldsLocks
<1>2. CountsTrue'
  <2>. SUFFICES ASSUME NEW r \in Requests, request'[r].step = "counted", NEW a \in Actions, NEW p, NEW m,
                       a = ActionOf(request'[r].kind), p = request'[r].phone, m = request'[r].remote
                PROVE  /\ Cardinality(PhoneTries(a, p)') < PhoneLimit[a]
                       /\ Cardinality(RemoteTries(a, m)') < RemoteLimit[a]
    BY ActionsOf DEF CountsTrue, HoldsLocks, PhoneTries, RemoteTries
  <2>1. request'[r] = request[r]
    BY DEF Calm
  <2>2. Cardinality(PhoneTries(a, p)) < PhoneLimit[a] /\ Cardinality(RemoteTries(a, m)) < RemoteLimit[a]
    BY <2>1 DEF CountsTrue, HoldsLocks
  <2>. QED
    BY <2>2, CalmCardinalities, LimitsAreNumbers
<1>3. RateKept'
  <2>. SUFFICES ASSUME NEW a \in Actions
                PROVE  /\ \A p \in Phones : Cardinality(PhoneTries(a, p)') <= PhoneLimit[a]
                       /\ \A m \in Remotes : Cardinality(RemoteTries(a, m)') <= RemoteLimit[a]
    BY DEF RateKept, PhoneTries, RemoteTries
  <2>1. /\ \A p \in Phones : Cardinality(PhoneTries(a, p)) <= PhoneLimit[a]
        /\ \A m \in Remotes : Cardinality(RemoteTries(a, m)) <= RemoteLimit[a]
    BY DEF RateKept, PhoneTries, RemoteTries
  <2>. QED
    BY <2>1, CalmCardinalities, LimitsAreNumbers
<1>. QED
  BY <1>1, <1>2, <1>3

\* Whoever counts has the locks of its phone and its address alone, and what it
\* counted is no less than what counts now.
LEMMA RateCount ==
    ASSUME LoginInv, RateInv, NEW r \in Requests, NEW k \in {"request", "login", "deletion"},
           NEW p \in Phones, NEW m \in Remotes, NEW s \in 0..MaxTime, CountAttempts(r, k, p, m, s)
    PROVE  RateInv'
<1>. USE DEF RateInv
<1>1. /\ request'[r].kind = k /\ request'[r].phone = p /\ request'[r].remote = m
      /\ \A q \in Requests : q # r => request'[q] = request[q]
  BY CountStep
<1>2. /\ UNCHANGED <<now, tries>> /\ s <= now /\ s \in Nat
      /\ LocksFree(ActionOf(k), p, m) /\ WithinLimits(ActionOf(k), p, m, s)
  BY SmsLoginAssumption DEF CountAttempts, loginTables, SmsLoginAssumption
<1>3. \A b, x : PhoneTries(b, x)' = PhoneTries(b, x) /\ RemoteTries(b, x)' = RemoteTries(b, x)
  BY <1>2 DEF PhoneTries, RemoteTries, OfPhone, OfRemote, Counted
<1>4. LocksSeparate'
  <2>. SUFFICES ASSUME NEW q \in Requests, NEW o \in Requests, q # o,
                       request'[q].step = "counted", request'[o].step = "counted",
                       ActionOf(request'[q].kind) = ActionOf(request'[o].kind)
                PROVE  request'[q].phone # request'[o].phone /\ request'[q].remote # request'[o].remote
    BY DEF LocksSeparate, HoldsLocks, ActionOf
  <2>1. CASE q # r /\ o # r
    BY <1>1, <2>1 DEF LocksSeparate, HoldsLocks
  <2>2. CASE q = r
    BY <1>1, <1>2, <2>2 DEF LocksFree, HoldsLocks
  <2>3. CASE o = r
    BY <1>1, <1>2, <2>3 DEF LocksFree, HoldsLocks
  <2>. QED
    BY <2>1, <2>2, <2>3
<1>5. CountsTrue'
  <2>. SUFFICES ASSUME NEW q \in Requests, request'[q].step = "counted", NEW a \in Actions, NEW x, NEW y,
                       a = ActionOf(request'[q].kind), x = request'[q].phone, y = request'[q].remote
                PROVE  /\ Cardinality(PhoneTries(a, x)) < PhoneLimit[a]
                       /\ Cardinality(RemoteTries(a, y)) < RemoteLimit[a]
    BY <1>3, ActionsOf DEF CountsTrue, HoldsLocks
  <2>1. CASE q # r
    BY <1>1, <2>1 DEF CountsTrue, HoldsLocks
  <2>2. CASE q = r
    <3>1. a = ActionOf(k) /\ x = p /\ y = m
      BY <1>1, <2>2
    <3>2. /\ Cardinality(OfPhone(p, Counted(a, s))) < PhoneLimit[a]
          /\ Cardinality(OfRemote(m, Counted(a, s))) < RemoteLimit[a]
      BY <1>2, <3>1 DEF WithinLimits
    <3>3. Counted(a, now) \subseteq Counted(a, s)
      BY <1>2, FewerCountLater
    <3>4. /\ PhoneTries(a, p) \subseteq OfPhone(p, Counted(a, s))
          /\ RemoteTries(a, m) \subseteq OfRemote(m, Counted(a, s))
          /\ OfPhone(p, Counted(a, s)) \subseteq tries /\ OfRemote(m, Counted(a, s)) \subseteq tries
      BY <3>3 DEF PhoneTries, RemoteTries, OfPhone, OfRemote, Counted
    <3>5. /\ Cardinality(PhoneTries(a, p)) \in Nat /\ Cardinality(OfPhone(p, Counted(a, s))) \in Nat
          /\ Cardinality(PhoneTries(a, p)) <= Cardinality(OfPhone(p, Counted(a, s)))
      BY <3>4, CountedFinite
    <3>6. /\ Cardinality(RemoteTries(a, m)) \in Nat /\ Cardinality(OfRemote(m, Counted(a, s))) \in Nat
          /\ Cardinality(RemoteTries(a, m)) <= Cardinality(OfRemote(m, Counted(a, s)))
      BY <3>4, CountedFinite
    <3>. QED
      BY <3>1, <3>2, <3>5, <3>6, LimitsAreNumbers
  <2>. QED
    BY <2>1, <2>2
<1>6. RateKept'
  BY <1>3 DEF RateKept, PhoneTries, RemoteTries
<1>. QED
  BY <1>4, <1>5, <1>6

\* The attempt is inserted where there was room for it, and where nobody else
\* counts.
LEMMA RateReserve ==
    ASSUME LoginInv, RateInv, NEW r \in Requests, ReserveAttempt(r)
    PROVE  RateInv'
<1>. USE DEF RateInv
<1>. DEFINE t == FreshAttempt(r)
<1>1. /\ HoldsLocks(r) /\ AtWork(r) /\ StepsTo(r, "reserved") /\ Cardinality(tries) < MaxTries
      /\ tries' = tries \cup {t} /\ now' = now
  BY DEF ReserveAttempt, HoldsLocks, AtWork
<1>2. /\ request'[r].step = "reserved" /\ \A q \in Requests : q # r => request'[q] = request[q]
  BY <1>1, StepMoves
<1>3. PICK a, p, m : /\ a = ActionOf(request[r].kind) /\ p = request[r].phone
                     /\ m = request[r].remote /\ a \in Actions
                     /\ t.action = a /\ t.phone = p /\ t.remote = m
  BY <1>1, FreshAttemptIsNew, ActionsOf
<1>. HIDE DEF t
<1>4. /\ \A b, x : PhoneTries(b, x)' \subseteq PhoneTries(b, x) \cup {t}
      /\ \A b, x : b # a \/ x # p => PhoneTries(b, x)' \subseteq PhoneTries(b, x)
      /\ \A b, y : RemoteTries(b, y)' \subseteq RemoteTries(b, y) \cup {t}
      /\ \A b, y : b # a \/ y # m => RemoteTries(b, y)' \subseteq RemoteTries(b, y)
  BY <1>1, <1>3 DEF PhoneTries, RemoteTries, OfPhone, OfRemote, Counted
<1>5. \A S \in SUBSET tries : \A T : T \subseteq S \cup {t} =>
          /\ Cardinality(S) \in Nat /\ Cardinality(T) \in Nat /\ Cardinality(T) <= Cardinality(S) + 1
  <2>. SUFFICES ASSUME NEW S \in SUBSET tries, NEW T, T \subseteq S \cup {t}
                PROVE  /\ Cardinality(S) \in Nat /\ Cardinality(T) \in Nat
                       /\ Cardinality(T) <= Cardinality(S) + 1
    OBVIOUS
  <2>1. IsFiniteSet(S) /\ Cardinality(S) \in Nat
    BY CountedFinite
  <2>2. /\ IsFiniteSet(S \cup {t}) /\ Cardinality(S \cup {t}) \in Nat
        /\ Cardinality(S \cup {t}) <= Cardinality(S) + 1
    <3>1. IsFiniteSet(S \cup {t})
      BY <2>1, FS_AddElement
    <3>2. Cardinality(S \cup {t}) = Cardinality(S) \/ Cardinality(S \cup {t}) = Cardinality(S) + 1
      BY <2>1, FS_AddElement
    <3>. QED
      BY <2>1, <3>1, <3>2
  <2>3. /\ Cardinality(T) \in Nat /\ Cardinality(T) <= Cardinality(S \cup {t})
    BY <2>2, FS_Subset, FS_CardinalityType
  <2>. QED
    BY <2>1, <2>2, <2>3
<1>6. /\ \A b, x : b # a \/ x # p =>
             /\ Cardinality(PhoneTries(b, x)) \in Nat /\ Cardinality(PhoneTries(b, x)') \in Nat
             /\ Cardinality(PhoneTries(b, x)') <= Cardinality(PhoneTries(b, x))
      /\ \A b, y : b # a \/ y # m =>
             /\ Cardinality(RemoteTries(b, y)) \in Nat /\ Cardinality(RemoteTries(b, y)') \in Nat
             /\ Cardinality(RemoteTries(b, y)') <= Cardinality(RemoteTries(b, y))
  BY <1>4, TriesAreTries, CountedFinite
<1>7. /\ Cardinality(PhoneTries(a, p)) \in Nat /\ Cardinality(PhoneTries(a, p)') \in Nat
      /\ Cardinality(PhoneTries(a, p)') <= Cardinality(PhoneTries(a, p)) + 1
      /\ Cardinality(RemoteTries(a, m)) \in Nat /\ Cardinality(RemoteTries(a, m)') \in Nat
      /\ Cardinality(RemoteTries(a, m)') <= Cardinality(RemoteTries(a, m)) + 1
  BY <1>4, <1>5, TriesAreTries
<1>8. /\ Cardinality(PhoneTries(a, p)) < PhoneLimit[a] /\ Cardinality(RemoteTries(a, m)) < RemoteLimit[a]
  BY <1>1, <1>3 DEF CountsTrue
<1>9. LocksSeparate'
  BY <1>2 DEF LocksSeparate, HoldsLocks
<1>10. CountsTrue'
  <2>. SUFFICES ASSUME NEW q \in Requests, request'[q].step = "counted", NEW b \in Actions, NEW x, NEW y,
                       b = ActionOf(request'[q].kind), x = request'[q].phone, y = request'[q].remote
                PROVE  /\ Cardinality(PhoneTries(b, x)') < PhoneLimit[b]
                       /\ Cardinality(RemoteTries(b, y)') < RemoteLimit[b]
    BY ActionsOf DEF CountsTrue, HoldsLocks, PhoneTries, RemoteTries
  <2>1. q # r /\ request'[q] = request[q]
    BY <1>2
  <2>2. Cardinality(PhoneTries(b, x)) < PhoneLimit[b] /\ Cardinality(RemoteTries(b, y)) < RemoteLimit[b]
    BY <2>1 DEF CountsTrue, HoldsLocks
  <2>3. b # a \/ (x # p /\ y # m)
    BY <1>1, <1>3, <2>1 DEF LocksSeparate, HoldsLocks
  <2>. QED
    BY <1>6, <2>2, <2>3, LimitsAreNumbers
<1>11. RateKept'
  <2>. SUFFICES ASSUME NEW b \in Actions
                PROVE  /\ \A x \in Phones : Cardinality(PhoneTries(b, x)') <= PhoneLimit[b]
                       /\ \A y \in Remotes : Cardinality(RemoteTries(b, y)') <= RemoteLimit[b]
    BY DEF RateKept, PhoneTries, RemoteTries
  <2>1. ASSUME NEW x \in Phones
        PROVE  Cardinality(PhoneTries(b, x)') <= PhoneLimit[b]
    <3>1. Cardinality(PhoneTries(b, x)) <= PhoneLimit[b]
      BY DEF RateKept, PhoneTries
    <3>2. CASE b = a /\ x = p
      BY <1>7, <1>8, <3>2, LimitsAreNumbers
    <3>3. CASE b # a \/ x # p
      BY <1>6, <3>1, <3>3, LimitsAreNumbers
    <3>. QED
      BY <3>2, <3>3
  <2>2. ASSUME NEW y \in Remotes
        PROVE  Cardinality(RemoteTries(b, y)') <= RemoteLimit[b]
    <3>1. Cardinality(RemoteTries(b, y)) <= RemoteLimit[b]
      BY DEF RateKept, RemoteTries
    <3>2. CASE b = a /\ y = m
      BY <1>7, <1>8, <3>2, LimitsAreNumbers
    <3>3. CASE b # a \/ y # m
      BY <1>6, <3>1, <3>3, LimitsAreNumbers
    <3>. QED
      BY <3>2, <3>3
  <2>. QED
    BY <2>1, <2>2
<1>. QED
  BY <1>9, <1>10, <1>11

\* Neither the requests of one phone nor those of one address, however many run
\* at once, exceed the limits of their window.
THEOREM LimitsKept == LoginSpec => []RateKept
<1>1. LoginInit => LoginInv /\ RateInv
  <2>. SUFFICES ASSUME LoginInit
                PROVE  RateInv
    BY LoginInvInit
  <2>1. \A r \in Requests : ~HoldsLocks(r)
    BY DEF LoginInit, NoRequest, HoldsLocks
  <2>2. \A b, x : PhoneTries(b, x) = {} /\ RemoteTries(b, x) = {}
    BY DEF LoginInit, PhoneTries, RemoteTries, OfPhone, OfRemote, Counted
  <2>3. RateKept
    BY <2>2, FS_EmptySet, LimitsAreNumbers DEF RateKept, PhoneTries, RemoteTries
  <2>. QED
    BY <2>1, <2>3 DEF RateInv, LocksSeparate, CountsTrue
<1>2. LoginInv /\ RateInv /\ [LoginNext]_loginVars => LoginInv' /\ RateInv'
  <2>. SUFFICES ASSUME LoginInv, RateInv, [LoginNext]_loginVars
                PROVE  RateInv'
    BY LoginInvNext
  <2>1. CASE UNCHANGED loginVars
    <3>1. Calm
      BY <2>1, SmsLoginAssumption DEF loginVars, loginTables, Calm, LoginInv, LoginTypeOK,
         SmsLoginAssumption
    <3>. QED
      BY <3>1, RateCalm
  <2>2. CASE LoginNext
    BY <2>2, LoginStep, RateCalm, RateCount, RateReserve
  <2>. QED
    BY <2>1, <2>2
<1>3. LoginInv /\ RateInv => RateKept
  BY DEF RateInv
<1>. QED
  BY <1>1, <1>2, <1>3, PTL DEF LoginSpec

-----------------------------------------------------------------------------
(* A delivered code works *)

CodeRequest(r) == AtWork(r) /\ request[r].kind = "request"
InDelivery(r) == request[r].step \in {"inserted", "undelivered", "sent"}

\* A code that was good for nothing although it was neither used nor too old.
LostEarly(c) == code[c].row \in Spent /\ grants[c] = 0 /\ ~Expired(c)
NewerOf(c, d) == code[d].phone = code[c].phone /\ code[d].pos > code[c].pos

\* The deadlines of its calls end a request, and while it runs its attempt is
\* kept, so that no other code is requested for its phone.
DeadlinesHold ==
    \A r \in Requests : AtWork(r) =>
        request[r].since <= now /\ now <= request[r].since + RequestLife

AttemptsKept ==
    \A r \in Requests : CodeRequest(r) /\ request[r].step # "counted" =>
        \E t \in tries : /\ t.action = "sms_request" /\ t.phone = request[r].phone
                         /\ t.at = request[r].since

OneCodeRequest ==
    \A q, r \in Requests : q # r /\ CodeRequest(q) /\ CodeRequest(r) =>
        request[q].phone # request[r].phone

\* Each new row is placed behind all others.
RowsInOrder ==
    /\ sent \subseteq Rows
    /\ \A c \in Rows : code[c].pos <= Cardinality(Rows)

\* The code that a request delivers is the newest of its phone, and nobody else
\* has withdrawn it.
DeliversNewest(r) ==
    LET c == request[r].code
    IN  /\ request[r].kind = "request" /\ c \in Rows /\ code[c].phone = request[r].phone
        /\ c \in sent <=> request[r].step = "sent"
        /\ ~LostEarly(c)
        /\ \A d \in Rows \ {c} : code[d].phone = code[c].phone => code[d].pos < code[c].pos
DeliveriesNewest == \A r \in Requests : InDelivery(r) => DeliversNewest(r)

WorkInv == DeadlinesHold /\ AttemptsKept /\ OneCodeRequest
DeliveryInv == RowsInOrder /\ DeliveriesNewest /\ DeliveredCodeWorks

\* A step gives one request other contents.
LEMMA OthersStay ==
    ASSUME LoginInv, NEW r \in Requests, NEW x, request' = [request EXCEPT ![r] = x]
    PROVE  request'[r] = x /\ \A q \in Requests : q # r => request'[q] = request[q]
BY LoginTypes DEF LoginInv

\* A request goes on with the work it has, and does not leave its locks.
Continues(q) ==
    request'[q].step # "idle" =>
        /\ request[q].step # "idle"
        /\ request'[q].kind = request[q].kind /\ request'[q].phone = request[q].phone
        /\ request'[q].since = request[q].since
        /\ request[q].step = "counted" => request'[q].step = "counted"

LEMMA WorkContinues ==
    ASSUME WorkInv, now' = now, tries \subseteq tries', \A q \in Requests : Continues(q)
    PROVE  WorkInv'
<1>1. DeadlinesHold'
  BY DEF WorkInv, DeadlinesHold, AtWork, Continues
<1>2. ASSUME NEW r \in Requests, CodeRequest(r)', request'[r].step # "counted"
      PROVE  \E t \in tries' : /\ t.action = "sms_request" /\ t.phone = request'[r].phone
                               /\ t.at = request'[r].since
  <2>1. /\ CodeRequest(r) /\ request[r].step # "counted"
        /\ request'[r].phone = request[r].phone /\ request'[r].since = request[r].since
    BY <1>2 DEF CodeRequest, AtWork, Continues
  <2>. QED
    BY <2>1 DEF WorkInv, AttemptsKept
<1>3. OneCodeRequest'
  BY DEF WorkInv, OneCodeRequest, CodeRequest, AtWork, Continues
<1>. QED
  BY <1>1, <1>2, <1>3 DEF WorkInv, AttemptsKept

\* A code request that runs keeps its phone from the next: it holds the phone's
\* lock, or its attempt is not older than Cooldown.
LEMMA WorkCounted ==
    ASSUME LoginInv, WorkInv, NEW r \in Requests, NEW k \in {"request", "login", "deletion"},
           NEW p \in Phones, NEW m \in Remotes, NEW s \in 0..MaxTime, CountAttempts(r, k, p, m, s)
    PROVE  WorkInv'
<1>. DEFINE x == [NoRequest EXCEPT !.step = "counted", !.kind = k, !.phone = p, !.remote = m, !.since = s]
<1>1. x.step = "counted" /\ x.kind = k /\ x.phone = p /\ x.since = s
  BY DEF NoRequest
<1>2. request' = [request EXCEPT ![r] = x] /\ now' = now /\ tries' = tries
  BY DEF CountAttempts, loginTables
<1>. HIDE DEF x
<1>3. request'[r] = x /\ \A q \in Requests : q # r => request'[q] = request[q]
  BY <1>2, OthersStay
<1>4. s <= now /\ now <= s + RequestLife
  BY DEF CountAttempts
<1>5. DeadlinesHold'
  BY <1>1, <1>2, <1>3, <1>4 DEF WorkInv, DeadlinesHold, AtWork
<1>6. AttemptsKept'
  BY <1>1, <1>2, <1>3 DEF WorkInv, AttemptsKept, CodeRequest, AtWork
<1>7. ASSUME NEW q \in Requests, q # r, CodeRequest(q), k = "request"
      PROVE  request[q].phone # p
  <2>1. CASE request[q].step = "counted"
    BY <1>7, <2>1 DEF CountAttempts, LocksFree, HoldsLocks, ActionOf, CodeRequest
  <2>2. CASE request[q].step # "counted"
    <3>1. PICK t \in tries : /\ t.action = "sms_request" /\ t.phone = request[q].phone
                             /\ t.at = request[q].since
      BY <1>7, <2>2 DEF WorkInv, AttemptsKept
    <3>2. now <= request[q].since + RequestLife
      BY <1>7 DEF WorkInv, DeadlinesHold, CodeRequest
    <3>3. /\ now \in Nat /\ request[q].since \in Nat
          /\ Cooldown \in Nat /\ RequestLife \in Nat /\ Window["sms_request"] \in Nat
          /\ RequestLife < Cooldown /\ Cooldown <= Window["sms_request"]
      BY SmsLoginAssumption, LoginTypes DEF SmsLoginAssumption, LoginInv, LoginTypeOK, Actions, RequestType
    <3>4. t.at + Window["sms_request"] > s /\ ~(t.at + Cooldown <= now)
      BY <1>4, <3>1, <3>2, <3>3
    <3>5. t \in Counted("sms_request", s)
      BY <3>1, <3>4 DEF Counted
    <3>6. \A y \in OfPhone(p, Counted("sms_request", s)) : y.at + Cooldown <= now
      BY <1>7 DEF CountAttempts, WithinLimits, ActionOf
    <3>. QED
      BY <3>1, <3>4, <3>5, <3>6 DEF OfPhone
  <2>. QED
    BY <2>1, <2>2
<1>8. OneCodeRequest'
  BY <1>1, <1>3, <1>7 DEF WorkInv, OneCodeRequest, CodeRequest, AtWork
<1>. QED
  BY <1>5, <1>6, <1>8 DEF WorkInv

LEMMA WorkReserved ==
    ASSUME LoginInv, WorkInv, NEW r \in Requests, ReserveAttempt(r)
    PROVE  WorkInv'
<1>. DEFINE x == [request[r] EXCEPT !.step = "reserved"]
<1>1. request[r] \in RequestType /\ AtWork(r) /\ HoldsLocks(r) /\ Cardinality(tries) < MaxTries
  BY LoginTypes DEF LoginInv, AtWork, HoldsLocks, ReserveAttempt
<1>2. /\ x.step = "reserved" /\ x.kind = request[r].kind /\ x.phone = request[r].phone
      /\ x.since = request[r].since
  BY <1>1 DEF RequestType
<1>3. /\ request' = [request EXCEPT ![r] = x] /\ now' = now
      /\ tries' = tries \cup {FreshAttempt(r)}
  BY DEF ReserveAttempt, StepsTo
<1>. HIDE DEF x
<1>4. request'[r] = x /\ \A q \in Requests : q # r => request'[q] = request[q]
  BY <1>3, OthersStay
<1>5. /\ FreshAttempt(r).action = ActionOf(request[r].kind)
      /\ FreshAttempt(r).phone = request[r].phone /\ FreshAttempt(r).at = request[r].since
  BY <1>1, FreshAttemptIsNew DEF FreshAttempt, Attempt
<1>6. DeadlinesHold'
  BY <1>1, <1>2, <1>3, <1>4 DEF WorkInv, DeadlinesHold, AtWork
<1>7. ASSUME NEW q \in Requests, CodeRequest(q)', request'[q].step # "counted"
      PROVE  \E t \in tries' : /\ t.action = "sms_request" /\ t.phone = request'[q].phone
                               /\ t.at = request'[q].since
  <2>1. CASE q = r
    <3>1. ActionOf(request[r].kind) = "sms_request"
      BY <1>2, <1>4, <1>7, <2>1 DEF CodeRequest, ActionOf
    <3>. QED
      BY <1>2, <1>3, <1>4, <1>5, <2>1, <3>1
  <2>2. CASE q # r
    BY <1>3, <1>4, <1>7, <2>2 DEF WorkInv, AttemptsKept, CodeRequest, AtWork
  <2>. QED
    BY <2>1, <2>2
<1>8. OneCodeRequest'
  BY <1>1, <1>2, <1>4 DEF WorkInv, OneCodeRequest, CodeRequest, AtWork
<1>. QED
  BY <1>6, <1>7, <1>8 DEF WorkInv, AttemptsKept

\* The clock waits for the deadlines, and no attempt is pruned before its request
\* has ended: attempts are kept longer than a request may take.
LEMMA WorkLater ==
    ASSUME LoginInv, WorkInv, PruneAttempts \/ Tick
    PROVE  WorkInv'
<1>1. request' = request
  BY DEF PruneAttempts, Tick
<1>2. /\ now \in Nat /\ {RequestLife, Retention} \subseteq Nat
      /\ RequestLife < Retention
      /\ \A r \in Requests : request[r].since \in Nat
  <2>1. /\ now \in Nat /\ {RequestLife, Cooldown, Retention, Window["sms_request"]} \subseteq Nat
        /\ RequestLife < Cooldown /\ Cooldown <= Window["sms_request"]
        /\ Window["sms_request"] <= Retention
    BY SmsLoginAssumption DEF SmsLoginAssumption, LoginInv, LoginTypeOK, Actions
  <2>2. \A r \in Requests : request[r].since \in Nat
    BY SmsLoginAssumption, LoginTypes DEF SmsLoginAssumption, LoginInv, RequestType
  <2>. QED
    BY <2>1, <2>2
<1>3. ASSUME NEW r \in Requests, AtWork(r)
      PROVE  request[r].since <= now' /\ now' <= request[r].since + RequestLife
  <2>1. request[r].since <= now /\ now <= request[r].since + RequestLife
    BY <1>3 DEF WorkInv, DeadlinesHold
  <2>2. CASE PruneAttempts
    BY <2>1, <2>2 DEF PruneAttempts
  <2>3. CASE Tick
    <3>1. request[r] # NoRequest
      BY <1>3 DEF AtWork, NoRequest
    <3>2. ~(request[r].since + RequestLife <= now) /\ now' = now + 1
      BY <2>3, <3>1 DEF Tick, Late
    <3>. QED
      BY <1>2, <2>1, <3>2
  <2>. QED
    BY <2>2, <2>3
<1>4. ASSUME NEW r \in Requests, CodeRequest(r), request[r].step # "counted"
      PROVE  \E t \in tries' : /\ t.action = "sms_request" /\ t.phone = request[r].phone
                               /\ t.at = request[r].since
  <2>1. PICK t \in tries : /\ t.action = "sms_request" /\ t.phone = request[r].phone
                           /\ t.at = request[r].since
    BY <1>4 DEF WorkInv, AttemptsKept
  <2>2. now <= request[r].since + RequestLife
    BY <1>4 DEF WorkInv, DeadlinesHold, CodeRequest
  <2>3. t.at + Retention >= now
    BY <1>2, <2>1, <2>2
  <2>. QED
    BY <2>1, <2>3 DEF PruneAttempts, Tick
<1>5. DeadlinesHold' /\ AttemptsKept' /\ OneCodeRequest'
  BY <1>1, <1>3, <1>4 DEF DeadlinesHold, AttemptsKept, WorkInv, OneCodeRequest, CodeRequest, AtWork
<1>. QED
  BY <1>5 DEF WorkInv

\* Numbers the codes are ordered and dated by.
LEMMA CodeNumbers ==
    ASSUME LoginInv
    PROVE  /\ now \in Nat /\ CodeLife \in Nat /\ CodeRetention \in Nat
           /\ \A c \in Codes : code[c].at \in Nat /\ code[c].pos \in Nat /\ grants[c] \in Nat
           /\ Cardinality(Rows) \in Nat
<1>1. /\ now \in Nat /\ CodeLife \in Nat /\ CodeRetention \in Nat
      /\ \A c \in Codes : grants[c] \in Nat
  BY SmsLoginAssumption DEF SmsLoginAssumption, LoginInv, LoginTypeOK
<1>2. \A c \in Codes : code[c].at \in Nat /\ code[c].pos \in Nat
  BY SmsLoginAssumption, LoginTypes DEF SmsLoginAssumption, LoginInv, RowType
<1>3. Cardinality(Rows) \in Nat
  BY FS_CardinalityType DEF LoginInv, TablesFinite
<1>. QED
  BY <1>1, <1>2, <1>3

\* A code that is lost without harm: nobody delivers it any more, and if it was
\* delivered there is a newer one that was.
LostSafely(c) ==
    /\ \A q \in Requests : InDelivery(q)' => request[q].code # c
    /\ c \in sent => \E d \in sent : NewerOf(c, d)

LEMMA DeliveryKept ==
    ASSUME LoginInv, DeliveryInv, sent' = sent,
           \A q \in Requests : InDelivery(q)' => request'[q] = request[q],
           \A c \in Codes : /\ code'[c].pos = code[c].pos /\ code'[c].phone = code[c].phone
                            /\ code'[c].row = "none" <=> code[c].row = "none"
                            /\ LostEarly(c)' => LostEarly(c) \/ LostSafely(c)
    PROVE  DeliveryInv'
<1>1. Rows' = Rows
  BY DEF Rows
<1>2. RowsInOrder'
  BY <1>1 DEF DeliveryInv, RowsInOrder, Rows
<1>3. ASSUME NEW q \in Requests, InDelivery(q)'
      PROVE  DeliversNewest(q)'
  <2>1. request'[q] = request[q] /\ InDelivery(q)
    BY <1>3 DEF InDelivery
  <2>2. DeliversNewest(q)
    BY <2>1 DEF DeliveryInv, DeliveriesNewest
  <2>3. PICK c \in Codes : c = request[q].code
    BY <2>2 DEF DeliversNewest, Rows
  <2>4. ~LostEarly(c)'
    BY <1>3, <2>2, <2>3 DEF DeliversNewest, LostSafely
  <2>5. /\ request'[q].kind = "request" /\ c \in Rows' /\ code'[c].phone = request'[q].phone
        /\ c \in sent' <=> request'[q].step = "sent"
        /\ \A d \in Rows' \ {c} : code'[d].phone = code'[c].phone => code'[d].pos < code'[c].pos
    BY <1>1, <2>1, <2>2, <2>3 DEF DeliversNewest, Rows
  <2>. QED
    BY <2>1, <2>3, <2>4, <2>5 DEF DeliversNewest, LostEarly, Expired
<1>4. ASSUME NEW c \in sent', LostEarly(c)'
      PROVE  \E d \in sent' : code'[d].phone = code'[c].phone /\ code'[d].pos > code'[c].pos
  <2>1. c \in Codes /\ sent \subseteq Codes
    BY DEF LoginInv, LoginTypeOK
  <2>2. \E d \in sent : NewerOf(c, d)
    BY <1>4, <2>1 DEF LostSafely, LostEarly, Spent, DeliveryInv, DeliveredCodeWorks, NewerOf
  <2>. QED
    BY <2>1, <2>2 DEF NewerOf
<1>5. DeliveredCodeWorks'
  BY <1>4 DEF DeliveredCodeWorks, LostEarly, Spent, Expired
<1>. QED
  BY <1>2, <1>3, <1>5 DEF DeliveryInv, DeliveriesNewest

\* Steps that take no code away.
LEMMA DeliveryUntouched ==
    ASSUME LoginInv, LoginInv', DeliveryInv, UNCHANGED <<code, sent, grants>>, now <= now',
           \A q \in Requests : InDelivery(q)' => request'[q] = request[q]
    PROVE  DeliveryInv'
<1>1. ASSUME NEW c \in Codes
      PROVE  LostEarly(c)' => LostEarly(c)
  <2>1. now' \in Nat
    BY SmsLoginAssumption DEF SmsLoginAssumption, LoginInv, LoginTypeOK
  <2>. QED
    BY <2>1, CodeNumbers DEF LostEarly, Expired, Spent
<1>. QED
  BY <1>1, DeliveryKept

\* RequestSMSCode inserts a code behind those of the phone; nobody else is about
\* to deliver one for it.
LEMMA DeliveryInserted ==
    ASSUME LoginInv, WorkInv, DeliveryInv, NEW r \in Requests, InsertCode(r)
    PROVE  DeliveryInv'
<1>0. PICK n \in Codes : n = FreshCode /\ n \notin Rows
  BY DEF InsertCode, FreshCode, Rows
<1>. DEFINE x == [request[r] EXCEPT !.step = "inserted", !.code = n]
            y == [row |-> "live", phone |-> request[r].phone, at |-> now,
                  pos |-> Cardinality(Rows) + 1, attempts |-> 0]
<1>1. n \notin Rows /\ request[r] \in RequestType /\ CodeRequest(r)
  BY <1>0, LoginTypes DEF InsertCode, LoginInv, CodeRequest, AtWork
<1>2. /\ x.step = "inserted" /\ x.kind = "request" /\ x.phone = request[r].phone /\ x.code = n
      /\ y.row = "live" /\ y.phone = request[r].phone /\ y.pos = Cardinality(Rows) + 1
  BY <1>1 DEF RequestType, CodeRequest
<1>3. /\ request' = [request EXCEPT ![r] = x] /\ code' = [code EXCEPT ![n] = y]
      /\ UNCHANGED <<now, sent, grants>>
  BY <1>0 DEF InsertCode
<1>. HIDE DEF x, y
<1>4. request'[r] = x /\ \A q \in Requests : q # r => request'[q] = request[q]
  BY <1>3, OthersStay
<1>5. code'[n] = y /\ \A c \in Codes : c # n => code'[c] = code[c]
  BY <1>1, <1>3, LoginTypes DEF LoginInv
<1>6. Rows' = Rows \cup {n}
  BY <1>1, <1>2, <1>5 DEF Rows
<1>7. Cardinality(Rows') = Cardinality(Rows) + 1
  BY <1>1, <1>6, FS_AddElement DEF LoginInv, TablesFinite
<1>8. /\ \A c \in Rows : code[c].pos <= Cardinality(Rows)
      /\ sent \subseteq Rows
  BY DEF DeliveryInv, RowsInOrder
<1>9. RowsInOrder'
  <2>1. ASSUME NEW c \in Rows'
        PROVE  code'[c].pos <= Cardinality(Rows')
    BY <1>1, <1>2, <1>5, <1>6, <1>7, <1>8, CodeNumbers DEF Rows
  <2>2. sent' \subseteq Rows'
    BY <1>3, <1>6, <1>8
  <2>. QED
    BY <2>1, <2>2 DEF RowsInOrder
<1>10. ASSUME NEW c \in Codes, c # n
       PROVE  code'[c] = code[c] /\ (LostEarly(c)' <=> LostEarly(c))
  BY <1>3, <1>5, <1>10 DEF LostEarly, Expired
<1>11. ~LostEarly(n)'
  BY <1>2, <1>5 DEF LostEarly, Spent
<1>12. DeliversNewest(r)'
  <2>1. \A d \in Rows : code'[d].pos < y.pos
    BY <1>1, <1>2, <1>5, <1>8, CodeNumbers DEF Rows
  <2>2. n \notin sent'
    BY <1>1, <1>3, <1>8
  <2>3. request'[r].code = n /\ request'[r].kind = "request" /\ request'[r].step = "inserted"
        /\ request'[r].phone = y.phone
    BY <1>2, <1>4
  <2>. QED
    BY <1>2, <1>4, <1>5, <1>6, <1>11, <2>1, <2>2, <2>3 DEF DeliversNewest, LostEarly, Expired
<1>13. ASSUME NEW q \in Requests, q # r, InDelivery(q)'
       PROVE  DeliversNewest(q)'
  <2>1. request'[q] = request[q] /\ InDelivery(q)
    BY <1>4, <1>13 DEF InDelivery
  <2>2. DeliversNewest(q)
    BY <2>1 DEF DeliveryInv, DeliveriesNewest
  <2>3. PICK c \in Codes : c = request[q].code
    BY <2>2 DEF DeliversNewest, Rows
  <2>4. c \in Rows /\ c # n /\ code[c].phone = request[q].phone
    BY <1>1, <2>2, <2>3 DEF DeliversNewest
  <2>5. code'[n].phone # code'[c].phone
    <3>1. CodeRequest(q)
      BY <2>1, <2>2 DEF CodeRequest, AtWork, InDelivery, DeliversNewest
    <3>2. request[q].phone # request[r].phone
      BY <1>1, <1>13, <3>1 DEF WorkInv, OneCodeRequest
    <3>. QED
      BY <1>2, <1>5, <2>4, <3>2
  <2>6. ~LostEarly(c)'
    BY <1>10, <2>2, <2>3, <2>4 DEF DeliversNewest
  <2>7. \A d \in Rows' \ {c} : code'[d].phone = code'[c].phone => code'[d].pos < code'[c].pos
    <3>. SUFFICES ASSUME NEW d \in Rows' \ {c}, code'[d].phone = code'[c].phone
                  PROVE  code'[d].pos < code'[c].pos
      OBVIOUS
    <3>1. d \in Rows \ {c}
      BY <1>6, <2>5
    <3>2. d \in Codes /\ d # n /\ c \in Codes
      BY <1>1, <3>1 DEF Rows
    <3>3. code'[d] = code[d] /\ code'[c] = code[c]
      BY <1>10, <2>4, <3>2
    <3>. QED
      BY <2>2, <2>3, <3>1, <3>3 DEF DeliversNewest
  <2>8. /\ request'[q].kind = "request" /\ c \in Rows' /\ code'[c].phone = request'[q].phone
        /\ c \in sent' <=> request'[q].step = "sent"
    BY <1>3, <1>6, <1>10, <2>1, <2>2, <2>3, <2>4 DEF DeliversNewest
  <2>. QED
    BY <2>1, <2>3, <2>6, <2>7, <2>8 DEF DeliversNewest, LostEarly, Expired
<1>14. DeliveredCodeWorks'
  <2>. SUFFICES ASSUME NEW c \in sent', LostEarly(c)'
                PROVE  \E d \in sent' : code'[d].phone = code'[c].phone /\ code'[d].pos > code'[c].pos
    BY DEF DeliveredCodeWorks, LostEarly, Spent, Expired
  <2>1. \A d \in sent : d \in Codes /\ d # n
    BY <1>1, <1>8 DEF Rows
  <2>2. c \in sent /\ LostEarly(c)
    BY <1>3, <1>10, <2>1
  <2>3. PICK d \in sent : code[d].phone = code[c].phone /\ code[d].pos > code[c].pos
    BY <2>2 DEF DeliveryInv, DeliveredCodeWorks, LostEarly, Spent
  <2>. QED
    BY <1>3, <1>10, <2>1, <2>2, <2>3
<1>. QED
  BY <1>9, <1>12, <1>13, <1>14 DEF DeliveryInv, DeliveriesNewest

\* The code that the provider accepts is one that nobody has withdrawn.
LEMMA DeliverySent ==
    ASSUME LoginInv, WorkInv, DeliveryInv, NEW r \in Requests, SendLoginCode(r)
    PROVE  DeliveryInv'
<1>1. request[r] \in RequestType /\ InDelivery(r) /\ request[r].step = "inserted"
  BY LoginTypes DEF LoginInv, InDelivery, SendLoginCode
<1>2. DeliversNewest(r)
  BY <1>1 DEF DeliveryInv, DeliveriesNewest
<1>3. PICK c \in Codes : c = request[r].code
  BY <1>2 DEF DeliversNewest, Rows
<1>4. PICK s \in {"sent", "undelivered"} :
        StepsTo(r, s) /\ sent' = IF s = "sent" THEN sent \cup {c} ELSE sent
  BY <1>3 DEF SendLoginCode
<1>. DEFINE x == [request[r] EXCEPT !.step = s]
<1>5. /\ x.step = s /\ x.kind = request[r].kind /\ x.phone = request[r].phone
      /\ x.code = request[r].code
  BY <1>1 DEF RequestType
<1>6. /\ request' = [request EXCEPT ![r] = x]
      /\ UNCHANGED <<now, code, grants>>
  BY <1>4 DEF StepsTo, SendLoginCode
<1>. HIDE DEF x
<1>7. request'[r] = x /\ \A q \in Requests : q # r => request'[q] = request[q]
  BY <1>6, OthersStay
<1>8. Rows' = Rows
  BY <1>6 DEF Rows
<1>9. \A d : LostEarly(d)' <=> LostEarly(d)
  BY <1>6 DEF LostEarly, Expired
<1>10. RowsInOrder'
  BY <1>2, <1>3, <1>4, <1>6, <1>8 DEF DeliveryInv, RowsInOrder, DeliversNewest
<1>11. c \in Rows /\ ~LostEarly(c) /\ c \notin sent /\ code[c].phone = request[r].phone
  BY <1>1, <1>2, <1>3 DEF DeliversNewest
<1>12. DeliversNewest(r)'
  BY <1>2, <1>3, <1>4, <1>5, <1>6, <1>7, <1>8, <1>11 DEF DeliversNewest, LostEarly, Expired
<1>13. ASSUME NEW q \in Requests, q # r, InDelivery(q)'
       PROVE  DeliversNewest(q)'
  <2>1. request'[q] = request[q] /\ InDelivery(q)
    BY <1>7, <1>13 DEF InDelivery
  <2>2. DeliversNewest(q)
    BY <2>1 DEF DeliveryInv, DeliveriesNewest
  <2>3. CodeRequest(q) /\ CodeRequest(r)
    BY <1>1, <1>2, <2>1, <2>2 DEF CodeRequest, AtWork, InDelivery, DeliversNewest
  <2>4. request[q].phone # request[r].phone
    BY <1>13, <2>3 DEF WorkInv, OneCodeRequest
  <2>5. request[q].code # c
    BY <1>11, <2>2, <2>4 DEF DeliversNewest
  <2>. QED
    BY <1>4, <1>6, <1>8, <2>1, <2>2, <2>5 DEF DeliversNewest, LostEarly, Expired
<1>14. DeliveredCodeWorks'
  <2>. SUFFICES ASSUME NEW d \in sent', LostEarly(d)'
                PROVE  \E e \in sent' : code'[e].phone = code'[d].phone /\ code'[e].pos > code'[d].pos
    BY DEF DeliveredCodeWorks, LostEarly, Spent, Expired
  <2>1. d \in sent /\ LostEarly(d)
    BY <1>4, <1>9, <1>11
  <2>2. PICK e \in sent : code[e].phone = code[d].phone /\ code[e].pos > code[d].pos
    BY <2>1 DEF DeliveryInv, DeliveredCodeWorks, LostEarly, Spent
  <2>. QED
    BY <1>4, <1>6, <2>1, <2>2
<1>. QED
  BY <1>10, <1>12, <1>13, <1>14 DEF DeliveryInv, DeliveriesNewest

\* A request that ends delivers nothing, and the others go on as they were.
LEMMA EndsDelivery ==
    ASSUME LoginInv, NEW r \in Requests, Finishes(r)
    PROVE  /\ \A q \in Requests : Continues(q)
           /\ \A q \in Requests : InDelivery(q)' => q # r /\ request'[q] = request[q]
BY FinishMoves DEF Continues, InDelivery, NoRequest

\* The row of one code changes.
LEMMA OneRow ==
    ASSUME LoginInv, NEW c \in Codes, NEW s \in Spent, code' = [code EXCEPT ![c].row = s]
    PROVE  /\ code'[c].row = s /\ code'[c].pos = code[c].pos /\ code'[c].phone = code[c].phone
           /\ code'[c].at = code[c].at
           /\ \A d \in Codes : d # c => code'[d] = code[d]
<1>1. code[c] \in RowType /\ code \in [Codes -> RowType]
  BY LoginTypes DEF LoginInv
<1>. QED
  BY <1>1 DEF RowType

\* Of two requests in delivery each has a code of its own phone.
LEMMA DeliveriesDiffer ==
    ASSUME WorkInv, DeliveryInv, NEW q \in Requests, NEW r \in Requests, q # r,
           InDelivery(q), InDelivery(r)
    PROVE  /\ request[q].phone # request[r].phone
           /\ code[request[q].code].phone = request[q].phone
           /\ request[q].code # request[r].code
<1>1. DeliversNewest(q) /\ DeliversNewest(r)
  BY DEF DeliveryInv, DeliveriesNewest
<1>2. CodeRequest(q) /\ CodeRequest(r)
  BY <1>1 DEF CodeRequest, AtWork, InDelivery, DeliversNewest
<1>3. request[q].phone # request[r].phone
  BY <1>2 DEF WorkInv, OneCodeRequest
<1>. QED
  BY <1>1, <1>3 DEF DeliversNewest

\* The cleanup deletes a code that was not sent, and its own.
LEMMA DeliveryCleaned ==
    ASSUME LoginInv, WorkInv, DeliveryInv, NEW r \in Requests, CleanupSMSCode(r)
    PROVE  DeliveryInv'
<1>1. /\ InDelivery(r) /\ request[r].step = "undelivered" /\ Finishes(r)
      /\ UNCHANGED <<now, sent, grants>>
  BY DEF CleanupSMSCode, InDelivery
<1>2. DeliversNewest(r)
  BY <1>1 DEF DeliveryInv, DeliveriesNewest
<1>3. PICK c \in Codes : c = request[r].code
  BY <1>2 DEF DeliversNewest, Rows
<1>4. c \notin sent /\ c \in Rows
  BY <1>1, <1>2, <1>3 DEF DeliversNewest
<1>5. \A q \in Requests : InDelivery(q)' => q # r /\ request'[q] = request[q] /\ InDelivery(q)
  BY <1>1, EndsDelivery DEF InDelivery
<1>6. LostSafely(c)
  BY <1>1, <1>3, <1>4, <1>5, DeliveriesDiffer DEF LostSafely
<1>7. CASE code' = code
  BY <1>1, <1>5, <1>7, DeliveryKept DEF LostEarly, Expired
<1>8. CASE code' = [code EXCEPT ![c].row = "deleted"]
  <2>1. /\ code'[c].row = "deleted" /\ code'[c].pos = code[c].pos /\ code'[c].phone = code[c].phone
        /\ \A d \in Codes : d # c => code'[d] = code[d]
    BY <1>8, OneRow DEF Spent
  <2>2. code[c].row # "none"
    BY <1>4 DEF Rows
  <2>3. \A d \in Codes : d # c => (LostEarly(d)' <=> LostEarly(d))
    BY <1>1, <2>1 DEF LostEarly, Expired
  <2>. QED
    BY <1>1, <1>5, <1>6, <2>1, <2>2, <2>3, DeliveryKept
<1>. QED
  BY <1>3, <1>7, <1>8 DEF CleanupSMSCode

\* The codes withdrawn after a delivery are older than the delivered one, and no
\* request is about to deliver any of them.
LEMMA DeliveryWithdrawn ==
    ASSUME LoginInv, WorkInv, DeliveryInv, NEW r \in Requests, InvalidateOlderSMSCodes(r)
    PROVE  DeliveryInv'
<1>1. /\ InDelivery(r) /\ request[r].step = "sent" /\ Finishes(r)
      /\ UNCHANGED <<now, sent, grants>>
  BY DEF InvalidateOlderSMSCodes, InDelivery
<1>2. DeliversNewest(r)
  BY <1>1 DEF DeliveryInv, DeliveriesNewest
<1>3. PICK k \in Codes, p \in Phones : k = request[r].code /\ p = request[r].phone
  BY <1>1, <1>2 DEF DeliversNewest, Rows, LoginInv, RequestsComplete, AtWork
<1>4. /\ k \in sent /\ code[k].phone = p
      /\ \A d \in Rows \ {k} : code[d].phone = p => code[d].pos < code[k].pos
  BY <1>1, <1>2, <1>3 DEF DeliversNewest
<1>5. \A q \in Requests : InDelivery(q)' => q # r /\ request'[q] = request[q] /\ InDelivery(q)
  BY <1>1, EndsDelivery DEF InDelivery
<1>6. CASE code' = code
  BY <1>1, <1>5, <1>6, DeliveryKept DEF LostEarly, Expired
<1>7. CASE code' = Withdrawn(p, k)
  <2>1. ASSUME NEW c \in Codes, c \notin Live(p) \ {k}
        PROVE  code'[c] = code[c]
    BY <1>7, <2>1 DEF Withdrawn
  <2>2. ASSUME NEW c \in Live(p) \ {k}
        PROVE  /\ c \in Codes /\ code'[c].pos = code[c].pos /\ code'[c].phone = code[c].phone
               /\ code'[c].row = "consumed" /\ code[c].row = "live"
    <3>1. c \in Codes /\ code[c] \in RowType /\ code[c].row = "live"
      BY LoginTypes DEF Live, LoginInv
    <3>2. code'[c] = [code[c] EXCEPT !.row = "consumed"]
      BY <1>7, <3>1 DEF Withdrawn
    <3>. QED
      BY <3>1, <3>2 DEF RowType
  <2>3. ASSUME NEW c \in Live(p) \ {k}
        PROVE  LostSafely(c)
    <3>1. c \in Rows \ {k} /\ code[c].phone = p
      BY DEF Live, Rows
    <3>2. NewerOf(c, k)
      BY <1>4, <3>1, CodeNumbers DEF NewerOf, Rows
    <3>3. ASSUME NEW q \in Requests, InDelivery(q)'
          PROVE  request[q].code # c
      BY <1>1, <1>3, <1>5, <3>1, <3>3, DeliveriesDiffer
    <3>. QED
      BY <1>4, <3>2, <3>3 DEF LostSafely
  <2>4. ASSUME NEW c \in Codes
        PROVE  /\ code'[c].pos = code[c].pos /\ code'[c].phone = code[c].phone
               /\ code'[c].row = "none" <=> code[c].row = "none"
               /\ LostEarly(c)' => LostEarly(c) \/ LostSafely(c)
    <3>1. CASE c \in Live(p) \ {k}
      BY <2>2, <2>3, <3>1
    <3>2. CASE c \notin Live(p) \ {k}
      <4>1. code'[c] = code[c]
        BY <2>1, <3>2
      <4>. QED
        BY <1>1, <4>1 DEF LostEarly, Expired
    <3>. QED
      BY <3>1, <3>2
  <2>. QED
    BY <1>1, <1>5, <2>4, DeliveryKept
<1>. QED
  BY <1>3, <1>6, <1>7 DEF InvalidateOlderSMSCodes

\* A wrong guess takes no code away, a right one uses it, and a code is pruned
\* when it has long expired.
LEMMA DeliveryCompared ==
    ASSUME LoginInv, DeliveryInv, NEW r \in Requests, NEW c \in Codes,
           RecordWrongGuess(r, c) \/ Exchange(r, c)
    PROVE  DeliveryInv'
<1>1. /\ Finishes(r) /\ UNCHANGED <<now, sent>>
      /\ code[c].row = "live" /\ code[c] \in RowType /\ code \in [Codes -> RowType]
  BY GuessedCode, LoginTypes DEF RecordWrongGuess, Exchange, LoginInv
<1>2. \A q \in Requests : InDelivery(q)' => request'[q] = request[q]
  BY <1>1, EndsDelivery
<1>3. CASE RecordWrongGuess(r, c)
  <2>1. /\ code'[c].row = "live" /\ code'[c].pos = code[c].pos /\ code'[c].phone = code[c].phone
        /\ \A d \in Codes : d # c => code'[d] = code[d]
    BY <1>1, <1>3 DEF RecordWrongGuess, RowType
  <2>2. UNCHANGED grants
    BY <1>3 DEF RecordWrongGuess
  <2>3. \A d \in Codes : LostEarly(d)' => LostEarly(d)
    BY <1>1, <2>1, <2>2 DEF LostEarly, Expired, Spent
  <2>4. \A d \in Codes : /\ code'[d].pos = code[d].pos /\ code'[d].phone = code[d].phone
                         /\ code'[d].row = "none" <=> code[d].row = "none"
    BY <1>1, <2>1
  <2>. QED
    BY <1>1, <1>2, <2>3, <2>4, DeliveryKept
<1>4. CASE Exchange(r, c)
  <2>1. /\ code'[c].row = "consumed" /\ code'[c].pos = code[c].pos /\ code'[c].phone = code[c].phone
        /\ \A d \in Codes : d # c => code'[d] = code[d]
    BY <1>4, OneRow DEF Exchange, Spent
  <2>2. /\ \A d \in Codes : d # c => grants'[d] = grants[d]
        /\ grants'[c] # 0
    BY <1>4 DEF Exchange, LoginInv, LoginTypeOK
  <2>3. \A d \in Codes : LostEarly(d)' => LostEarly(d)
    BY <1>1, <2>1, <2>2 DEF LostEarly, Expired, Spent
  <2>4. \A d \in Codes : /\ code'[d].pos = code[d].pos /\ code'[d].phone = code[d].phone
                         /\ code'[d].row = "none" <=> code[d].row = "none"
    BY <1>1, <2>1
  <2>. QED
    BY <1>1, <1>2, <2>3, <2>4, DeliveryKept
<1>. QED
  BY <1>3, <1>4

LEMMA DeliveryPruned ==
    ASSUME LoginInv, DeliveryInv, PruneCodes
    PROVE  DeliveryInv'
<1>. DEFINE old == {c \in Rows : code[c].row # "deleted" /\ code[c].at + CodeLife + CodeRetention < now}
<1>1. /\ code' = [c \in Codes |-> IF c \in old THEN [code[c] EXCEPT !.row = "deleted"] ELSE code[c]]
      /\ UNCHANGED <<now, request, sent, grants>>
  BY DEF PruneCodes
<1>2. ASSUME NEW c \in old
      PROVE  c \in Codes /\ code[c].row # "none" /\ Expired(c)
  BY CodeNumbers DEF Expired, Rows
<1>. HIDE DEF old
<1>3. ASSUME NEW c \in Codes
      PROVE  /\ code'[c].pos = code[c].pos /\ code'[c].phone = code[c].phone
             /\ code'[c].row = "none" <=> code[c].row = "none"
             /\ LostEarly(c)' => LostEarly(c) \/ LostSafely(c)
  <2>1. CASE c \in old
    <3>1. code'[c] = [code[c] EXCEPT !.row = "deleted"] /\ code[c] \in RowType
      BY <1>1, <2>1, LoginTypes DEF LoginInv
    <3>2. /\ code'[c].row = "deleted" /\ code'[c].pos = code[c].pos
          /\ code'[c].phone = code[c].phone /\ code'[c].at = code[c].at
      BY <3>1 DEF RowType
    <3>. QED
      BY <1>1, <1>2, <2>1, <3>2 DEF LostEarly, Expired
  <2>2. CASE c \notin old
    <3>1. code'[c] = code[c]
      BY <1>1, <2>2
    <3>. QED
      BY <1>1, <3>1 DEF LostEarly, Expired
  <2>. QED
    BY <2>1, <2>2
<1>. QED
  BY <1>1, <1>3, DeliveryKept

LEMMA WorkNext ==
    ASSUME LoginInv, WorkInv, LoginNext
    PROVE  WorkInv'
<1>1. ASSUME NEW r \in Requests, LimitedRequest(r) \/ LimitedVerify(r)
      PROVE  WorkInv'
  BY <1>1, WorkCounted DEF LimitedRequest, LimitedVerify
<1>2. ASSUME NEW r \in Requests, ReserveAttempt(r)
      PROVE  WorkInv'
  BY <1>2, WorkReserved
<1>3. ASSUME NEW r \in Requests, NEW x, request' = [request EXCEPT ![r] = x],
             x.kind = request[r].kind, x.phone = request[r].phone, x.since = request[r].since,
             request[r].step \notin {"idle", "counted"}, UNCHANGED <<now, tries>>
      PROVE  WorkInv'
  <2>1. request'[r] = x /\ \A q \in Requests : q # r => request'[q] = request[q]
    BY <1>3, OthersStay
  <2>2. \A q \in Requests : Continues(q)
    BY <1>3, <2>1 DEF Continues
  <2>. QED
    BY <1>3, <2>2, WorkContinues
<1>4. ASSUME NEW r \in Requests, InsertCode(r)
      PROVE  WorkInv'
  <2>. DEFINE x == [request[r] EXCEPT !.step = "inserted", !.code = FreshCode]
  <2>1. request[r] \in RequestType /\ request[r].step = "reserved"
    BY <1>4, LoginTypes DEF LoginInv, InsertCode
  <2>2. x.kind = request[r].kind /\ x.phone = request[r].phone /\ x.since = request[r].since
    BY <2>1 DEF RequestType
  <2>3. request' = [request EXCEPT ![r] = x] /\ UNCHANGED <<now, tries>>
    BY <1>4 DEF InsertCode
  <2>. HIDE DEF x
  <2>. QED
    BY <1>3, <2>1, <2>2, <2>3
<1>5. ASSUME NEW r \in Requests, SendLoginCode(r)
      PROVE  WorkInv'
  <2>0. PICK s \in {"sent", "undelivered"} : StepsTo(r, s)
    BY <1>5 DEF SendLoginCode
  <2>. DEFINE x == [request[r] EXCEPT !.step = s]
  <2>1. request[r] \in RequestType /\ request[r].step = "inserted"
    BY <1>5, LoginTypes DEF LoginInv, SendLoginCode
  <2>2. x.kind = request[r].kind /\ x.phone = request[r].phone /\ x.since = request[r].since
    BY <2>1 DEF RequestType
  <2>3. request' = [request EXCEPT ![r] = x] /\ UNCHANGED <<now, tries>>
    BY <1>5, <2>0 DEF SendLoginCode, StepsTo
  <2>. HIDE DEF x
  <2>. QED
    BY <1>3, <2>1, <2>2, <2>3
<1>6. ASSUME NEW r \in Requests, NEW g, SelectCodes(r, g)
      PROVE  WorkInv'
  <2>. DEFINE x == [request[r] EXCEPT !.step = "selected", !.code = g,
                                      !.seen = {c \in Live(request[r].phone) : ~Expired(c)}]
  <2>1. request[r] \in RequestType /\ request[r].step = "reserved"
    BY <1>6, LoginTypes DEF LoginInv, SelectCodes
  <2>2. x.kind = request[r].kind /\ x.phone = request[r].phone /\ x.since = request[r].since
    BY <2>1 DEF RequestType
  <2>3. request' = [request EXCEPT ![r] = x] /\ UNCHANGED <<now, tries>>
    BY <1>6 DEF SelectCodes, loginTables
  <2>. HIDE DEF x
  <2>. QED
    BY <1>3, <2>1, <2>2, <2>3
<1>7. ASSUME NEW r \in Requests, Finishes(r), UNCHANGED <<now, tries>>
      PROVE  WorkInv'
  BY <1>7, EndsDelivery, WorkContinues
<1>8. ASSUME NEW r \in Requests, CleanupSMSCode(r) \/ InvalidateOlderSMSCodes(r)
      PROVE  WorkInv'
  BY <1>7, <1>8 DEF CleanupSMSCode, InvalidateOlderSMSCodes
<1>9. ASSUME NEW r \in Requests, RefuseGuess(r) \/ AbortLogin(r)
      PROVE  WorkInv'
  BY <1>7, <1>9 DEF RefuseGuess, AbortLogin, loginTables
<1>10. ASSUME NEW r \in Requests, NEW c \in Codes, RecordWrongGuess(r, c) \/ LogIn(r, c) \/ ConfirmDeletion(r, c)
       PROVE  WorkInv'
  BY <1>7, <1>10 DEF RecordWrongGuess, LogIn, ConfirmDeletion, Exchange
<1>11. CASE PruneCodes
  <2>1. UNCHANGED <<now, request, tries>>
    BY <1>11 DEF PruneCodes
  <2>. QED
    BY <2>1, WorkContinues DEF Continues
<1>12. CASE PruneAttempts \/ Tick
  BY <1>12, WorkLater
<1>. QED
  BY <1>1, <1>2, <1>4, <1>5, <1>6, <1>8, <1>9, <1>10, <1>11, <1>12
     DEF LoginNext, LoginRequest, RequestSMSCode, VerifySMSCode, VerifyAccountDeletionSMSCode

LEMMA DeliveryNext ==
    ASSUME LoginInv, LoginInv', WorkInv, DeliveryInv, LoginNext
    PROVE  DeliveryInv'
<1>0. now \in Nat
  BY CodeNumbers
<1>1. ASSUME NEW r \in Requests, NEW x, request' = [request EXCEPT ![r] = x],
             x.step \notin {"inserted", "undelivered", "sent"},
             UNCHANGED <<now, code, sent, grants>>
      PROVE  DeliveryInv'
  <2>1. \A q \in Requests : InDelivery(q)' => request'[q] = request[q]
    BY <1>1, OthersStay DEF InDelivery
  <2>2. now <= now'
    BY <1>0, <1>1
  <2>. QED
    BY <1>1, <2>1, <2>2, DeliveryUntouched
<1>2. ASSUME NEW r \in Requests, NEW k, NEW p, NEW m, NEW s, CountAttempts(r, k, p, m, s)
      PROVE  DeliveryInv'
  <2>. DEFINE x == [NoRequest EXCEPT !.step = "counted", !.kind = k, !.phone = p,
                                     !.remote = m, !.since = s]
  <2>1. x.step = "counted"
    BY DEF NoRequest
  <2>2. request' = [request EXCEPT ![r] = x] /\ UNCHANGED <<now, code, sent, grants>>
    BY <1>2 DEF CountAttempts, loginTables
  <2>. HIDE DEF x
  <2>. QED
    BY <1>1, <2>1, <2>2
<1>3. ASSUME NEW r \in Requests, ReserveAttempt(r)
      PROVE  DeliveryInv'
  <2>. DEFINE x == [request[r] EXCEPT !.step = "reserved"]
  <2>1. x.step = "reserved"
    BY LoginTypes DEF LoginInv, RequestType
  <2>2. request' = [request EXCEPT ![r] = x] /\ UNCHANGED <<now, code, sent, grants>>
    BY <1>3 DEF ReserveAttempt, StepsTo
  <2>. HIDE DEF x
  <2>. QED
    BY <1>1, <2>1, <2>2
<1>4. ASSUME NEW r \in Requests, RequestSMSCode(r)
      PROVE  DeliveryInv'
  BY <1>4, DeliveryInserted, DeliverySent, DeliveryCleaned, DeliveryWithdrawn DEF RequestSMSCode
<1>5. ASSUME NEW r \in Requests, NEW g, SelectCodes(r, g)
      PROVE  DeliveryInv'
  <2>. DEFINE x == [request[r] EXCEPT !.step = "selected", !.code = g,
                                      !.seen = {c \in Live(request[r].phone) : ~Expired(c)}]
  <2>1. x.step = "selected"
    BY LoginTypes DEF LoginInv, RequestType
  <2>2. request' = [request EXCEPT ![r] = x] /\ UNCHANGED <<now, code, sent, grants>>
    BY <1>5 DEF SelectCodes, loginTables
  <2>. HIDE DEF x
  <2>. QED
    BY <1>1, <2>1, <2>2
<1>6. ASSUME NEW r \in Requests, RefuseGuess(r) \/ AbortLogin(r)
      PROVE  DeliveryInv'
  <2>1. Finishes(r) /\ UNCHANGED <<now, code, sent, grants>>
    BY <1>6 DEF RefuseGuess, AbortLogin, loginTables
  <2>. QED
    BY <1>1, <2>1 DEF Finishes, NoRequest
<1>7. ASSUME NEW r \in Requests, NEW c \in Codes, RecordWrongGuess(r, c) \/ LogIn(r, c) \/ ConfirmDeletion(r, c)
      PROVE  DeliveryInv'
  BY <1>7, DeliveryCompared DEF LogIn, ConfirmDeletion
<1>8. CASE PruneCodes
  BY <1>8, DeliveryPruned
<1>9. CASE PruneAttempts \/ Tick
  <2>1. UNCHANGED <<code, request, sent, grants>> /\ now <= now'
    BY <1>0, <1>9 DEF PruneAttempts, Tick
  <2>. QED
    BY <2>1, DeliveryUntouched
<1>. QED
  BY <1>2, <1>3, <1>4, <1>5, <1>6, <1>7, <1>8, <1>9
     DEF LoginNext, LoginRequest, LimitedRequest, LimitedVerify, VerifySMSCode,
         VerifyAccountDeletionSMSCode

\* RequestSMSCode delivers a code between two calls that share no transaction,
\* and the UPDATE that follows withdraws every other code of the phone: still a
\* code the provider accepted is good until it is used, expires, or a newer one
\* has been accepted.  The deadlines of a request are shorter than the cooldown
\* of its attempt, which keeps the requests of one phone apart.
THEOREM DeliveredCodesWork == LoginSpec => []DeliveredCodeWorks
<1>1. LoginInit => LoginInv /\ WorkInv /\ DeliveryInv
  <2>. SUFFICES ASSUME LoginInit
                PROVE  WorkInv /\ DeliveryInv
    BY LoginInvInit
  <2>1. \A r \in Requests : request[r].step = "idle"
    BY DEF LoginInit, NoRequest
  <2>2. Rows = {} /\ sent = {}
    BY DEF LoginInit, Rows, NoRow
  <2>3. WorkInv
    BY <2>1 DEF WorkInv, DeadlinesHold, AttemptsKept, OneCodeRequest, CodeRequest, AtWork
  <2>. QED
    BY <2>1, <2>2, <2>3 DEF DeliveryInv, RowsInOrder, DeliveriesNewest, InDelivery, DeliveredCodeWorks
<1>2. LoginInv /\ WorkInv /\ DeliveryInv /\ [LoginNext]_loginVars
         => LoginInv' /\ WorkInv' /\ DeliveryInv'
  <2>. SUFFICES ASSUME LoginInv, WorkInv, DeliveryInv, [LoginNext]_loginVars
                PROVE  WorkInv' /\ DeliveryInv'
    BY LoginInvNext
  <2>0. LoginInv'
    BY LoginInvNext
  <2>1. CASE UNCHANGED loginVars
    <3>1. UNCHANGED <<now, tries, request, code, sent, grants>> /\ now <= now'
      BY <2>1, CodeNumbers DEF loginVars, loginTables
    <3>2. \A q \in Requests : Continues(q)
      BY <3>1 DEF Continues
    <3>. QED
      BY <2>0, <3>1, <3>2, WorkContinues, DeliveryUntouched
  <2>2. CASE LoginNext
    BY <2>0, <2>2, WorkNext, DeliveryNext
  <2>. QED
    BY <2>1, <2>2
<1>3. DeliveryInv => DeliveredCodeWorks
  BY DEF DeliveryInv
<1>. QED
  BY <1>1, <1>2, <1>3, PTL DEF LoginSpec
=============================================================================
