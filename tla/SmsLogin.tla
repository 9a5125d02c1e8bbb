------------------------------ MODULE SmsLogin ------------------------------
(* Login by SMS: httpapi/auth.go, auth_abuse.go, sms_rate_limit.go and      *)
(* account_deletion_auth.go.  A request first reserves an attempt under     *)
(* advisory locks; a code is then a row, a message sent by the provider and *)
(* an UPDATE that withdraws the older codes, three calls that share no      *)
(* transaction; a verification reads the newest code, waits for its row and *)
(* compares.                                                                *)
(*                                                                          *)
(* A code's row and its six digits are one element of Codes.  Time is a     *)
(* clock of ticks; the deadlines of a request's calls add up to RequestLife *)
(* ticks at most, so the clock does not pass the deadline of a request.     *)
EXTENDS Naturals, FiniteSets

CONSTANTS
    Phones, Remotes,  \* phone numbers, addresses of clients
    Codes,            \* rows of sms_login_codes
    Requests,         \* requests the API is working on
    NoCode, NoPhone, NoRemote,
    PhoneLimit, RemoteLimit, Window, \* the limits of each action of auth_attempts
    Cooldown,         \* least time between two codes for a phone (45 s)
    CodeLife,         \* how long a code is good (5 min)
    RequestLife,      \* the deadlines of a code request together (20 s)
    Retention,        \* how long attempts are kept (7 days)
    CodeRetention,    \* how long expired codes are kept (24 h)
    MaxAttempts,      \* wrong guesses a code stands (5)
    MaxTries,         \* attempts kept at a time (bound)
    MaxTime           \* the clock's end (bound)

Actions == {"sms_request", "sms_verify"}

ASSUME SmsLoginAssumption ==
    /\ PhoneLimit \in [Actions -> Nat] /\ RemoteLimit \in [Actions -> Nat]
    /\ Window \in [Actions -> Nat]
    /\ {Cooldown, CodeLife, RequestLife, Retention, CodeRetention, MaxAttempts,
        MaxTries, MaxTime} \subseteq Nat
    /\ NoCode \notin Codes /\ NoPhone \notin Phones /\ NoRemote \notin Remotes
    \* 3 s + 3 s + 12 s + 2 s are less than 45 s, and 45 s are less than an hour
    /\ RequestLife < Cooldown /\ Cooldown <= Window["sms_request"]
    \* attempts are kept for a week, and counted for an hour at most
    /\ \A a \in Actions : Window[a] <= Retention

VARIABLES
    now,
    users,    \* phones with an account
    code,     \* sms_login_codes
    tries,    \* auth_attempts
    request,  \* the requests in flight
    held,     \* history: codes whose message reached the phone
    sent,     \* history: codes the provider accepted for delivery
    grants    \* history: how many tokens a code was exchanged for

loginTables == <<now, users, code, tries, held, sent, grants>>

-----------------------------------------------------------------------------
(* Rows, requests and their locks *)

NoRequest == [step |-> "idle", kind |-> "none", phone |-> NoPhone, remote |-> NoRemote,
              code |-> NoCode, seen |-> {}, since |-> 0]

\* The action an attempt is recorded under.
ActionOf(k) == IF k = "request" THEN "sms_request" ELSE "sms_verify"

NoRow == [row |-> "none", phone |-> NoPhone, at |-> 0, pos |-> 0, attempts |-> 0]

Rows == {c \in Codes : code[c].row # "none"}
\* Which unused element the INSERT takes makes no difference.
FreshCode == CHOOSE c \in Codes : c \notin Rows
Live(p) == {c \in Codes : code[c].row = "live" /\ code[c].phone = p}
Expired(c) == code[c].at + CodeLife <= now

\* The row ORDER BY created_at DESC LIMIT 1 yields.
IsNewest(c, S) == c \in S /\ \A d \in S : code[d].pos <= code[c].pos

\* The attempts of an action that a transaction begun at time s counts.
Counted(a, s) == {t \in tries : t.action = a /\ t.at + Window[a] > s}
OfPhone(p, S) == {t \in S : t.phone = p}
OfRemote(m, S) == {t \in S : t.remote = m}

\* The advisory locks of reserveAuthAttempt, held until its transaction ends.
HoldsLocks(r) == request[r].step = "counted"
\* Variants: the transaction counts without locks, or takes the phone's only.
LocksNotTaken(a, p, m) == TRUE
PhoneLockFree(a, p, m) ==
    \A r \in Requests : HoldsLocks(r) /\ ActionOf(request[r].kind) = a => request[r].phone # p
LocksFree(a, p, m) ==
    \A r \in Requests : HoldsLocks(r) /\ ActionOf(request[r].kind) = a =>
                        request[r].phone # p /\ request[r].remote # m

\* Variant: no time between two codes.
WithinWindow(a, p, m, s) ==
    /\ Cardinality(OfRemote(m, Counted(a, s))) < RemoteLimit[a]
    /\ Cardinality(OfPhone(p, Counted(a, s))) < PhoneLimit[a]

WithinLimits(a, p, m, s) ==
    /\ a = "sms_request" => \A t \in OfPhone(p, Counted(a, s)) : t.at + Cooldown <= now
    /\ Cardinality(OfRemote(m, Counted(a, s))) < RemoteLimit[a]
    /\ Cardinality(OfPhone(p, Counted(a, s))) < PhoneLimit[a]

Finishes(r) == request' = [request EXCEPT ![r] = NoRequest]
StepsTo(r, s) == request' = [request EXCEPT ![r].step = s]

-----------------------------------------------------------------------------
(* reserveAuthAttempt: the wrappers of the three handlers *)

\* The transaction, begun at s, waited for the locks and counts; over a limit
\* it ends with 429.  Its now() stays s.
CountAttempts(r, k, p, m, s) ==
    /\ request[r] = NoRequest
    /\ s <= now /\ now <= s + RequestLife
    /\ LocksFree(ActionOf(k), p, m)
    /\ WithinLimits(ActionOf(k), p, m, s)
    /\ request' = [request EXCEPT ![r] = [NoRequest EXCEPT !.step = "counted", !.kind = k,
                                             !.phone = p, !.remote = m, !.since = s]]
    /\ UNCHANGED loginTables

Attempt(r, i) == [action |-> ActionOf(request[r].kind), phone |-> request[r].phone,
                  remote |-> request[r].remote, at |-> request[r].since, id |-> i]

\* The id only tells equal attempts apart.
FreshAttempt(r) == Attempt(r, CHOOSE i \in 1..MaxTries : Attempt(r, i) \notin tries)

ReserveAttempt(r) ==
    /\ HoldsLocks(r)
    /\ Cardinality(tries) < MaxTries
    /\ tries' = tries \cup {FreshAttempt(r)}
    /\ StepsTo(r, "reserved")
    /\ UNCHANGED <<now, users, code, held, sent, grants>>

-----------------------------------------------------------------------------
(* RequestSMSCode *)

InsertCode(r) ==
    /\ request[r].step = "reserved" /\ request[r].kind = "request"
    /\ Rows # Codes
    /\ code' = [code EXCEPT ![FreshCode] = [row |-> "live", phone |-> request[r].phone,
                                            at |-> now, pos |-> Cardinality(Rows) + 1,
                                            attempts |-> 0]]
    /\ request' = [request EXCEPT ![r].step = "inserted", ![r].code = FreshCode]
    /\ UNCHANGED <<now, users, tries, held, sent, grants>>

\* The provider may deliver what it does not confirm, and confirm what it
\* does not deliver.
DeliveredOrNot(c) == held' \in {held, held \cup {c}}

SendLoginCode(r) ==
    /\ request[r].step = "inserted"
    /\ DeliveredOrNot(request[r].code)
    /\ \/ sent' = sent \cup {request[r].code} /\ StepsTo(r, "sent")
       \/ sent' = sent /\ StepsTo(r, "undelivered")
    /\ UNCHANGED <<now, users, code, tries, grants>>

\* The DELETE after a failed delivery; its own failure is ignored.
CleanupSMSCode(r) ==
    /\ request[r].step = "undelivered"
    /\ code' \in {code, [code EXCEPT ![request[r].code].row = "deleted"]}
    /\ Finishes(r)
    /\ UNCHANGED <<now, users, tries, held, sent, grants>>

\* Every other code of the phone is consumed, a newer one too.
Withdrawn(p, keep) ==
    [c \in Codes |-> IF c \in Live(p) \ {keep} THEN [code[c] EXCEPT !.row = "consumed"]
                                               ELSE code[c]]

InvalidateOlderSMSCodes(r) ==
    /\ request[r].step = "sent"
    /\ code' \in {code, Withdrawn(request[r].phone, request[r].code)}
    /\ Finishes(r)
    /\ UNCHANGED <<now, users, tries, held, sent, grants>>

-----------------------------------------------------------------------------
(* VerifySMSCode and VerifyAccountDeletionSMSCode: kinds "login" and        *)
(* "deletion".  A guess is a code that reached the phone, or a wrong one.   *)

\* The SELECT's snapshot: rows that are live and not expired at its start.
SelectCodes(r, guess) ==
    /\ request[r].step = "reserved"
    /\ request' = [request EXCEPT ![r].step = "selected", ![r].code = guess,
                                  ![r].seen = {c \in Live(request[r].phone) : ~Expired(c)}]
    /\ UNCHANGED loginTables

\* FOR UPDATE waits for the newest row and looks at it again; one consumed or
\* deleted meanwhile is passed over.
LockableUnseen(r) == request[r].seen  \* variant: a SELECT without FOR UPDATE
Lockable(r) == {c \in request[r].seen : code[c].row = "live"}

\* No row: 401.  Too many attempts: 429, and the transaction is rolled back.
RefuseGuess(r) ==
    /\ request[r].step = "selected"
    /\ \A c \in Codes : IsNewest(c, Lockable(r)) => code[c].attempts >= MaxAttempts
    /\ Finishes(r)
    /\ UNCHANGED loginTables

\* Variant: wrong guesses are recorded and not asked for.
GuessableForEver(r, c) ==
    request[r].step = "selected" /\ IsNewest(c, Lockable(r))

Guessable(r, c) ==
    /\ request[r].step = "selected"
    /\ IsNewest(c, Lockable(r))
    /\ code[c].attempts < MaxAttempts

RecordWrongGuess(r, c) ==
    /\ Guessable(r, c) /\ request[r].code # c
    /\ code' = [code EXCEPT ![c].attempts = @ + 1]
    /\ Finishes(r)
    /\ UNCHANGED <<now, users, tries, held, sent, grants>>

Exchange(r, c) ==
    /\ Guessable(r, c) /\ request[r].code = c
    /\ code' = [code EXCEPT ![c].row = "consumed"]
    /\ grants' = [grants EXCEPT ![c] = @ + 1]
    /\ Finishes(r)
    /\ UNCHANGED <<now, tries, held, sent>>

\* The phone gets an account, if it has none, and its access token.
LogIn(r, c) == Exchange(r, c) /\ users' = users \cup {request[r].phone}

\* No account is made: without one the code is spent for a 404.
ConfirmDeletion(r, c) == Exchange(r, c) /\ UNCHANGED users

-----------------------------------------------------------------------------
(* Pruning, failures and time *)

\* pruneAuthHistory: two statements, each of its own.
PruneAttempts ==
    /\ \E t \in tries : t.at + Retention < now
    /\ tries' = {t \in tries : t.at + Retention >= now}
    /\ UNCHANGED <<now, users, code, request, held, sent, grants>>

PruneCodes ==
    LET old == {c \in Rows : code[c].row # "deleted" /\ code[c].at + CodeLife + CodeRetention < now}
    IN /\ old # {}
       /\ code' = [c \in Codes |-> IF c \in old THEN [code[c] EXCEPT !.row = "deleted"]
                                                ELSE code[c]]
       /\ UNCHANGED <<now, users, tries, request, held, sent, grants>>

\* A request stops where it is: a deadline, a lost connection, a crash.
AbortLogin(r) ==
    /\ request[r].step \in {"counted", "reserved", "inserted", "undelivered", "sent", "selected"}
    /\ Finishes(r)
    /\ UNCHANGED loginTables

Late(r) == request[r] # NoRequest /\ request[r].since + RequestLife <= now

Tick ==
    /\ now < MaxTime
    /\ \A r \in Requests : ~Late(r)
    /\ now' = now + 1
    /\ UNCHANGED <<users, code, tries, request, held, sent, grants>>

-----------------------------------------------------------------------------
(* The specification *)

loginVars == <<loginTables, request>>

LoginInit ==
    /\ now = 0
    /\ users = {}
    /\ code = [c \in Codes |-> NoRow]
    /\ tries = {}
    /\ request = [r \in Requests |-> NoRequest]
    /\ held = {} /\ sent = {}
    /\ grants = [c \in Codes |-> 0]

Guesses(p) == {c \in held : code[c].phone = p} \cup {NoCode}

LimitedRequest(r) == \E p \in Phones, m \in Remotes, s \in 0..MaxTime :
                         CountAttempts(r, "request", p, m, s)

LimitedVerify(r) == \E k \in {"login", "deletion"}, p \in Phones, m \in Remotes, s \in 0..MaxTime :
                        CountAttempts(r, k, p, m, s)

RequestSMSCode(r) ==
    InsertCode(r) \/ SendLoginCode(r) \/ CleanupSMSCode(r) \/ InvalidateOlderSMSCodes(r)

VerifySMSCode(r) ==
    /\ request[r].kind = "login"
    /\ \/ \E g \in Guesses(request[r].phone) : SelectCodes(r, g)
       \/ RefuseGuess(r)
       \/ \E c \in Codes : RecordWrongGuess(r, c) \/ LogIn(r, c)

VerifyAccountDeletionSMSCode(r) ==
    /\ request[r].kind = "deletion"
    /\ \/ \E g \in Guesses(request[r].phone) : SelectCodes(r, g)
       \/ RefuseGuess(r)
       \/ \E c \in Codes : RecordWrongGuess(r, c) \/ ConfirmDeletion(r, c)

LoginRequest(r) ==
    \/ LimitedRequest(r) \/ LimitedVerify(r) \/ ReserveAttempt(r)
    \/ RequestSMSCode(r) \/ VerifySMSCode(r) \/ VerifyAccountDeletionSMSCode(r)
    \/ AbortLogin(r)

LoginNext == (\E r \in Requests : LoginRequest(r)) \/ PruneAttempts \/ PruneCodes \/ Tick

LoginSpec == LoginInit /\ [][LoginNext]_loginVars

-----------------------------------------------------------------------------
(* Properties *)

\* Types of the tables, the requests and the histories; no code stands more
\* wrong guesses than it may.
LoginTypeOK ==
    /\ now \in 0..MaxTime
    /\ users \subseteq Phones
    /\ code \in [Codes -> [row : {"none", "live", "consumed", "deleted"},
                           phone : Phones \cup {NoPhone}, at : 0..MaxTime, pos : Nat,
                           attempts : 0..MaxAttempts]]
    /\ tries \subseteq [id : 1..MaxTries, action : Actions, phone : Phones, remote : Remotes,
                        at : 0..MaxTime]
    /\ request \in [Requests -> [step : {"idle", "counted", "reserved", "inserted", "sent",
                                         "undelivered", "selected"},
                                 kind : {"none", "request", "login", "deletion"},
                                 phone : Phones \cup {NoPhone}, remote : Remotes \cup {NoRemote},
                                 code : Codes \cup {NoCode}, seen : SUBSET Codes,
                                 since : 0..MaxTime]]
    /\ held \subseteq Codes /\ sent \subseteq Codes
    /\ grants \in [Codes -> Nat]

\* However many requests cross, on however many replicas, the attempts of a
\* phone and of a client stay within their limits: what reserveAuthAttempt
\* counts is still true when it inserts.
RateKept ==
    \A a \in Actions :
        /\ \A p \in Phones : Cardinality(OfPhone(p, Counted(a, now))) <= PhoneLimit[a]
        /\ \A m \in Remotes : Cardinality(OfRemote(m, Counted(a, now))) <= RemoteLimit[a]

\* A code the provider accepted is only lost to a newer one the provider
\* accepted: requests for a phone do not withdraw each other's codes, although
\* invalidateOlderSMSCodes withdraws newer codes as well and no lock orders them.
DeliveredCodeWorks ==
    \A c \in sent :
        code[c].row \in {"consumed", "deleted"} /\ grants[c] = 0 /\ ~Expired(c) =>
            \E d \in sent : code[d].phone = code[c].phone /\ code[d].pos > code[c].pos

\* Login and account deletion implement the one-time code: used once, guessed
\* at most MaxAttempts times, and not at all once it was withdrawn.
OneTime == INSTANCE OneTimeCode
    WITH granted <- grants,
         wrong <- [c \in Codes |-> code[c].attempts],
         void <- {c \in Codes : code[c].row \in {"consumed", "deleted"} /\ grants[c] = 0}

OneTimeSpec == OneTime!Spec
=============================================================================
