------------------------------ MODULE Billing ------------------------------
(***************************************************************************)
(* Paid subscriptions: the checkout, the bank's callback, the status poll  *)
(* and the lazy expiry of an account, as they interleave over two          *)
(* PostgreSQL tables (account_subscriptions, subscription_payment_orders)  *)
(* under READ COMMITTED.                                                   *)
(*                                                                         *)
(* A request in flight is a slot of Calls; call[c] says which statement it *)
(* is at and what it carries.  A transaction that holds a row lock while   *)
(* it goes on has a state of its own ("reserve" and "insert" hold the      *)
(* subscription row, "activate" holds the order row); every other          *)
(* transaction is one step, taken when the rows it locks are free.         *)
(*                                                                         *)
(* Amounts, signatures and the merchant's sandbox switches are left out:   *)
(* an invoice has the fixed amount of its order.  A plan with its billing  *)
(* period is an Offer, and time is a bounded counter of ticks.             *)
(***************************************************************************)
EXTENDS Naturals, FiniteSets

CONSTANTS Users,      \* accounts
          Orders,     \* rows subscription_payment_orders may get
          Invoices,   \* invoices the bank may issue
          Payments,   \* payment attempts (trans_id) the bank may see
          Calls,      \* API requests in flight at a time
          Keys,       \* idempotency keys clients choose from
          Offers,     \* (plan, billing period) pairs on sale
          PeriodLen,  \* ticks an offer buys
          TrialLen,   \* ticks of the free trial
          OrderLife,  \* ticks an order and its invoice stay payable (24 h)
          MaxTime,    \* the clock stops here
          NoOffer, NoInvoice, NoPayment

ASSUME BillingAssumption ==
  /\ PeriodLen \in [Offers -> Nat \ {0}]
  /\ TrialLen \in Nat /\ OrderLife \in Nat \ {0} /\ MaxTime \in Nat
  /\ NoOffer \notin Offers /\ NoInvoice \notin Invoices
  /\ NoPayment \notin Payments

VARIABLES now,      \* the clock
          sub,      \* account_subscriptions, by user
          order,    \* subscription_payment_orders
          call,     \* the requests in flight
          invoice,  \* external: the invoices at the bank
          shown,    \* external: those whose link a customer was given
          payment   \* external: the payment attempts at the bank

vars == <<now, sub, order, call, invoice, shown, payment>>

-----------------------------------------------------------------------------
(* Rows and request states. *)

Open == {"pending", "processing"}
OrderStatus == Open \cup {"paid", "canceled"}

SubRow == [status : {"none", "trialing", "active", "expired"},
           plan : Offers \cup {NoOffer}, end : Nat]
NoSub == [status |-> "none", plan |-> NoOffer, end |-> 0]

Absent == [status |-> "absent"]
\* payment_url is only ever saved together with its invoice ID.
OrderRow ==
  {r \in [status : OrderStatus, user : Users, key : Keys, offer : Offers,
          invoice : Invoices \cup {NoInvoice}, link : BOOLEAN,
          tx : Payments \cup {NoPayment}, created : Nat] :
     r.link => r.invoice # NoInvoice}

BankInvoice == [order : Orders, until : Nat]
BankPayment == [status : {"processing", "approved", "canceled"},
                invoice : Invoices]

Idle == [pc |-> "idle"]
CallState ==
  {Idle}
  \cup [pc : {"reserve", "insert"}, user : Users, key : Keys, offer : Offers]
  \cup [pc : {"invoice"}, order : Orders]
  \cup [pc : {"save"}, order : Orders, invoice : Invoices, link : BOOLEAN]
  \cup [pc : {"poll"}, order : Orders, invoice : Invoices]
  \cup [pc : {"apply"}, order : Orders, invoice : Invoices \cup {NoInvoice},
        tx : Payments, result : {"processing", "canceled", "approved"}]
  \cup [pc : {"update"}, order : Orders, status : {"processing", "canceled"}]
  \cup [pc : {"activate"}, order : Orders,
        invoice : Invoices \cup {NoInvoice}, tx : Payments]
  \cup [pc : {"expire"}, user : Users]

Exists(o) == order[o] # Absent
IsOpen(o) == order[o].status \in Open

\* Row locks held across a wait.
SubNeverLocked(u) == FALSE  \* variant: ensureSubscription without FOR UPDATE
SubLocked(u) ==
  \E c \in Calls : call[c].pc \in {"reserve", "insert"} /\ call[c].user = u
OrderLocked(o) == \E c \in Calls : call[c].pc = "activate" /\ call[c].order = o

Goto(c, state) == call' = [call EXCEPT ![c] = state]
Return(c) == Goto(c, Idle)

Init ==
  /\ now = 0
  /\ sub = [u \in Users |-> NoSub]
  /\ order = [o \in Orders |-> Absent]
  /\ call = [c \in Calls |-> Idle]
  /\ invoice = [i \in Invoices |-> Absent]
  /\ shown = {}
  /\ payment = [p \in Payments |-> Absent]

-----------------------------------------------------------------------------
(* ensureSubscription: insert the trial row, then expire a lapsed one.     *)
(* Users are created at time 0, so the trial ends at TrialLen.             *)

Inserted(s) == IF s.status = "none" THEN [s EXCEPT !.status = "trialing"] ELSE s

Lapsed(s) == \/ s.status = "trialing" /\ TrialLen <= now
             \/ s.status = "active" /\ s.end <= now

Ensured(s) == IF Lapsed(Inserted(s))
              THEN [Inserted(s) EXCEPT !.status = "expired"]
              ELSE Inserted(s)

\* SubscriptionStatus and requireSubscribed read the row without a lock; the
\* expiry they decide on is a second statement.
ReadSubscription(c, u) ==
  /\ call[c] = Idle
  /\ sub[u].status = "none" => ~SubLocked(u)
  /\ sub' = [sub EXCEPT ![u] = Inserted(sub[u])]
  /\ IF Lapsed(Inserted(sub[u]))
     THEN Goto(c, [pc |-> "expire", user |-> u])
     ELSE UNCHANGED call
  /\ UNCHANGED <<now, order, invoice, shown, payment>>

ExpireSubscription(c) ==
  /\ call[c].pc = "expire"
  /\ ~SubLocked(call[c].user)
  /\ sub' = [sub EXCEPT ![call[c].user].status = "expired"]
  /\ Return(c)
  /\ UNCHANGED <<now, order, invoice, shown, payment>>

-----------------------------------------------------------------------------
(* POST /subscriptions/checkout.  The reservation holds the subscription   *)
(* row from BeginReserve to its commit or rollback.                        *)

BeginReserve(c, u, k, f) ==
  /\ call[c] = Idle
  /\ ~SubLocked(u)
  /\ Goto(c, [pc |-> "reserve", user |-> u, key |-> k, offer |-> f])
  /\ UNCHANGED <<now, sub, order, invoice, shown, payment>>

ByKey(u, k) == {o \in Orders : Exists(o) /\ order[o].user = u /\ order[o].key = k}
FreshOpen(u) == {o \in Orders : /\ Exists(o) /\ order[o].user = u /\ IsOpen(o)
                                /\ now < order[o].created + OrderLife}

CommitEnsured(u) == sub' = [sub EXCEPT ![u] = Ensured(sub[u])]

\* The rest of SubscriptionCheckout with the order it was handed: show its
\* link, or go on to createOBankInvoice when the order has none.
AnswerWith(c, o) ==
  IF order[o].status = "paid" \/ order[o].link
  THEN /\ Return(c)
       /\ shown' = IF order[o].status = "paid" THEN shown
                   ELSE shown \cup {order[o].invoice}
  ELSE /\ Goto(c, [pc |-> "invoice", order |-> o])
       /\ UNCHANGED shown

\* errCheckoutState and errCheckoutExists roll the transaction back.
Refuse(c) == Return(c) /\ UNCHANGED <<sub, shown>>

ReserveByKey(c, o) ==
  /\ call[c].pc = "reserve"
  /\ o \in ByKey(call[c].user, call[c].key)
  /\ IF \/ order[o].offer # call[c].offer
        \/ order[o].status = "canceled"
        \/ order[o].status # "paid" /\ order[o].created + OrderLife < now
     THEN Refuse(c)
     ELSE CommitEnsured(call[c].user) /\ AnswerWith(c, o)
  /\ UNCHANGED <<now, order, invoice, payment>>

ReserveOpen(c, o) ==
  /\ call[c].pc = "reserve"
  /\ ByKey(call[c].user, call[c].key) = {}
  /\ o \in FreshOpen(call[c].user)
  /\ \A x \in FreshOpen(call[c].user) : order[x].created <= order[o].created
  /\ ~OrderLocked(o)
  /\ IF order[o].offer # call[c].offer
     THEN Refuse(c)
     ELSE CommitEnsured(call[c].user) /\ AnswerWith(c, o)
  /\ UNCHANGED <<now, order, invoice, payment>>

\* Neither lookup found an order; the INSERT is the next statement.
ReserveNone(c) ==
  /\ call[c].pc = "reserve"
  /\ ByKey(call[c].user, call[c].key) = {}
  /\ FreshOpen(call[c].user) = {}
  /\ Goto(c, [call[c] EXCEPT !.pc = "insert"])
  /\ UNCHANGED <<now, sub, order, invoice, shown, payment>>

InsertOrder(c, o) ==
  /\ call[c].pc = "insert"
  /\ ~Exists(o)
  /\ order' = [order EXCEPT ![o] =
       [status |-> "pending", user |-> call[c].user, key |-> call[c].key,
        offer |-> call[c].offer, invoice |-> NoInvoice, link |-> FALSE,
        tx |-> NoPayment, created |-> now]]
  /\ CommitEnsured(call[c].user)
  /\ Goto(c, [pc |-> "invoice", order |-> o])
  /\ UNCHANGED <<now, invoice, shown, payment>>

\* The bank issues an invoice; a link that only opens the bank's app leaves
\* payment_url empty.
CreateInvoice(c, i, link) ==
  /\ call[c].pc = "invoice"
  /\ invoice[i] = Absent
  /\ invoice' = [invoice EXCEPT ![i] =
       [order |-> call[c].order, until |-> now + OrderLife]]
  /\ Goto(c, [pc |-> "save", order |-> call[c].order, invoice |-> i, link |-> link])
  /\ UNCHANGED <<now, sub, order, shown, payment>>

SaveInvoice(c) ==
  /\ call[c].pc = "save"
  /\ LET o == call[c].order  i == call[c].invoice IN
     /\ ~OrderLocked(o)
     /\ IF IsOpen(o)
        THEN /\ order' = [order EXCEPT ![o].invoice = i, ![o].link = call[c].link]
             /\ shown' = shown \cup {i}
        ELSE UNCHANGED <<order, shown>>
  /\ Return(c)
  /\ UNCHANGED <<now, sub, invoice, payment>>

-----------------------------------------------------------------------------
(* applyOBankResult, reached from the bank's callback and from a poll that *)
(* was answered "approved".                                                *)

\* The bank may deliver any status an attempt went through, late, in any
\* order and again; it may leave the invoice out.
ReceiveCallback(c, p, result, i) ==
  /\ call[c] = Idle
  /\ payment[p] # Absent
  /\ result = "processing" \/ result = payment[p].status
  /\ i \in {payment[p].invoice, NoInvoice}
  /\ Goto(c, [pc |-> "apply", order |-> invoice[payment[p].invoice].order,
              invoice |-> i, tx |-> p, result |-> result])
  /\ UNCHANGED <<now, sub, order, invoice, shown, payment>>

\* Variant: a transaction that is not recorded yet counts as another one.
MismatchWhenEmpty(o, r) == order[o].tx # r.tx

Mismatch(o, r) ==
  \/ r.invoice # NoInvoice /\ order[o].invoice # NoInvoice /\ r.invoice # order[o].invoice
  \/ order[o].tx # NoPayment /\ order[o].tx # r.tx

\* COALESCE(NULLIF(column, ''), value)
Coalesce(old, none, new) == IF old = none THEN new ELSE old

Recorded(o, status, r) ==
  [order[o] EXCEPT !.status = status,
                   !.invoice = Coalesce(@, NoInvoice, r.invoice),
                   !.tx = Coalesce(@, NoPayment, r.tx)]

\* errPaymentInvalid, a payment that is already applied, or errCheckoutState.
NothingToApply(o, r) ==
  \/ Mismatch(o, r)
  \/ order[o].status = "paid"
  \/ order[o].status = "canceled" /\ r.result # "canceled"

ApplyIgnored(c) ==
  /\ call[c].pc = "apply"
  /\ ~OrderLocked(call[c].order)
  /\ NothingToApply(call[c].order, call[c])
  /\ Return(c)
  /\ UNCHANGED <<now, sub, order, invoice, shown, payment>>

ApplyStatus(c) ==
  /\ call[c].pc = "apply"
  /\ call[c].result \in {"processing", "canceled"}
  /\ LET o == call[c].order IN
     /\ ~OrderLocked(o)
     /\ ~NothingToApply(o, call[c])
     /\ order' = [order EXCEPT ![o] = Recorded(o, call[c].result, call[c])]
  /\ Return(c)
  /\ UNCHANGED <<now, sub, invoice, shown, payment>>

\* An approved result keeps the order row locked and goes for the
\* subscription row: the opposite order of a reservation.
ApplyApproved(c) ==
  /\ call[c].pc = "apply"
  /\ call[c].result = "approved"
  /\ ~OrderLocked(call[c].order)
  /\ ~NothingToApply(call[c].order, call[c])
  /\ Goto(c, [pc |-> "activate", order |-> call[c].order,
              invoice |-> call[c].invoice, tx |-> call[c].tx])
  /\ UNCHANGED <<now, sub, order, invoice, shown, payment>>

PeriodStartNow(s) == now  \* variant: the remaining time is forgotten
PeriodStart(s) == IF s.status = "active" /\ now < s.end THEN s.end ELSE now

Activate(c) ==
  /\ call[c].pc = "activate"
  /\ LET o == call[c].order
         u == order[o].user
     IN /\ ~SubLocked(u)
        /\ IsOpen(o)
        /\ sub' = [sub EXCEPT ![u] =
             [status |-> "active", plan |-> order[o].offer,
              end |-> PeriodStart(Ensured(sub[u])) + PeriodLen[order[o].offer]]]
        /\ order' = [order EXCEPT ![o].status = "paid",
                                  ![o].invoice = Coalesce(@, NoInvoice, call[c].invoice),
                                  ![o].tx = call[c].tx]
  /\ Return(c)
  /\ UNCHANGED <<now, invoice, shown, payment>>

-----------------------------------------------------------------------------
(* GET /subscriptions/checkout: load the order, ask the bank, apply the    *)
(* answer.  The 5 s throttle of claimOBankStatusCheck is shorter than the  *)
(* bank's 12 s, so polls of one order may overlap.                         *)

ClaimStatusCheck(c, o) ==
  /\ call[c] = Idle
  /\ Exists(o) /\ IsOpen(o)
  /\ order[o].invoice # NoInvoice
  /\ ~OrderLocked(o)
  /\ Goto(c, [pc |-> "poll", order |-> o, invoice |-> order[o].invoice])
  /\ UNCHANGED <<now, sub, order, invoice, shown, payment>>

Attempts(i) == {p \in Payments : payment[p] # Absent /\ payment[p].invoice = i}
AttemptsIn(i, status) == {p \in Attempts(i) : payment[p].status = status}

\* Variant: any attempt of the invoice counts as approved.
PollAnyAttempt(c, p) ==
  /\ call[c].pc = "poll"
  /\ p \in Attempts(call[c].invoice)
  /\ Goto(c, [pc |-> "apply", order |-> call[c].order, invoice |-> call[c].invoice,
              tx |-> p, result |-> "approved"])
  /\ UNCHANGED <<now, sub, order, invoice, shown, payment>>

\* GetStatus: an approved attempt wins over one in progress, and that over a
\* canceled one; an invoice past its date_life may be reported canceled.
PollApproved(c, p) ==
  /\ call[c].pc = "poll"
  /\ p \in AttemptsIn(call[c].invoice, "approved")
  /\ Goto(c, [pc |-> "apply", order |-> call[c].order, invoice |-> call[c].invoice,
              tx |-> p, result |-> "approved"])
  /\ UNCHANGED <<now, sub, order, invoice, shown, payment>>

\* Variant: the bank's spelling of the status is stored as it came.
PollStatusVerbatim(c, status) ==
  /\ call[c].pc = "poll"
  /\ AttemptsIn(call[c].invoice, status) # {}
  /\ Goto(c, [pc |-> "update", order |-> call[c].order,
              status |-> IF status = "canceled" THEN "cancelled" ELSE status])
  /\ UNCHANGED <<now, sub, order, invoice, shown, payment>>

PollStatus(c, status) ==
  /\ call[c].pc = "poll"
  /\ AttemptsIn(call[c].invoice, "approved") = {}
  /\ \/ /\ status = "processing"
        /\ AttemptsIn(call[c].invoice, "processing") # {}
     \/ /\ status = "canceled"
        /\ AttemptsIn(call[c].invoice, "processing") = {}
        /\ \/ AttemptsIn(call[c].invoice, "canceled") # {}
           \/ invoice[call[c].invoice].until <= now
  /\ Goto(c, [pc |-> "update", order |-> call[c].order, status |-> status])
  /\ UNCHANGED <<now, sub, order, invoice, shown, payment>>

\* Variant: the UPDATE without "status IN ('pending', 'processing')".
UpdateAnyStatus(c) ==
  /\ call[c].pc = "update"
  /\ ~OrderLocked(call[c].order)
  /\ order' = [order EXCEPT ![call[c].order].status = call[c].status]
  /\ Return(c)
  /\ UNCHANGED <<now, sub, invoice, shown, payment>>

UpdatePaymentStatus(c) ==
  /\ call[c].pc = "update"
  /\ ~OrderLocked(call[c].order)
  /\ order' = IF IsOpen(call[c].order)
              THEN [order EXCEPT ![call[c].order].status = call[c].status]
              ELSE order
  /\ Return(c)
  /\ UNCHANGED <<now, sub, invoice, shown, payment>>

-----------------------------------------------------------------------------
(* A request that stops half-way: a context deadline, a lost answer of the *)
(* bank, the deadlock detector, a crash of the API.  PostgreSQL rolls its  *)
(* open transaction back.                                                  *)

Abort(c) ==
  /\ call[c] # Idle
  /\ Return(c)
  /\ UNCHANGED <<now, sub, order, invoice, shown, payment>>

(* External: the customer and the bank. *)

PayInvoice(p, i) ==
  /\ payment[p] = Absent
  /\ invoice[i] # Absent
  /\ i \in shown /\ now < invoice[i].until
  /\ AttemptsIn(i, "processing") \cup AttemptsIn(i, "approved") = {}
  /\ payment' = [payment EXCEPT ![p] = [status |-> "processing", invoice |-> i]]
  /\ UNCHANGED <<now, sub, order, call, invoice, shown>>

SettleAttempt(p, status) ==
  /\ payment[p] # Absent
  /\ payment[p].status = "processing"
  /\ payment' = [payment EXCEPT ![p].status = status]
  /\ UNCHANGED <<now, sub, order, call, invoice, shown>>

Tick ==
  /\ now < MaxTime
  /\ now' = now + 1
  /\ UNCHANGED <<sub, order, call, invoice, shown, payment>>

-----------------------------------------------------------------------------
Checkout(c) ==
  \/ \E u \in Users, k \in Keys, f \in Offers : BeginReserve(c, u, k, f)
  \/ \E o \in Orders : ReserveByKey(c, o) \/ ReserveOpen(c, o)
  \/ ReserveNone(c)
  \/ \E o \in Orders : InsertOrder(c, o)
  \/ \E i \in Invoices, link \in BOOLEAN : CreateInvoice(c, i, link)
  \/ SaveInvoice(c)

Callback(c) ==
  \/ \E p \in Payments, i \in Invoices \cup {NoInvoice} :
       \E result \in {"processing", "canceled", "approved"} :
         ReceiveCallback(c, p, result, i)
  \/ ApplyIgnored(c) \/ ApplyStatus(c) \/ ApplyApproved(c) \/ Activate(c)

Poll(c) ==
  \/ \E o \in Orders : ClaimStatusCheck(c, o)
  \/ \E p \in Payments : PollApproved(c, p)
  \/ \E status \in {"processing", "canceled"} : PollStatus(c, status)
  \/ UpdatePaymentStatus(c)

StatusRequest(c) ==
  \/ \E u \in Users : ReadSubscription(c, u)
  \/ ExpireSubscription(c)

Bank ==
  \/ \E p \in Payments, i \in Invoices : PayInvoice(p, i)
  \/ \E p \in Payments, status \in {"approved", "canceled"} : SettleAttempt(p, status)

Next ==
  \/ \E c \in Calls : Checkout(c) \/ Callback(c) \/ Poll(c) \/ StatusRequest(c) \/ Abort(c)
  \/ Bank
  \/ Tick

Spec == Init /\ [][Next]_vars

-----------------------------------------------------------------------------
(* Fairness.  Every step of a handler is bounded by a context deadline, so *)
(* a request does not stay in flight for ever; the bank repeats a callback *)
(* that was not acknowledged and the billing page keeps asking while an    *)
(* order is open, and neither fails every single time.                     *)

OfPayment(A(_), p) == \E c \in Calls : A(c) /\ call[c].tx = p

CallbackAgain(p) == \E c \in Calls : /\ payment[p] # Absent
                                     /\ ReceiveCallback(c, p, "approved", payment[p].invoice)
PollAgain(o) == \E c \in Calls : ClaimStatusCheck(c, o)
PollFinds(p) == \E c \in Calls : PollApproved(c, p)

Fairness ==
  /\ \A c \in Calls : WF_vars(Abort(c))
  /\ \A p \in Payments : /\ SF_vars(CallbackAgain(p)) /\ SF_vars(PollFinds(p))
                          /\ SF_vars(OfPayment(ApplyApproved, p))
                          /\ SF_vars(OfPayment(Activate, p))
  /\ \A o \in Orders : SF_vars(PollAgain(o))

FairSpec == Spec /\ Fairness

-----------------------------------------------------------------------------
(* Properties. *)

\* The columns and the requests in flight only take the values the CHECK
\* constraints and the handlers allow: payment_url never without an invoice,
\* no status of the bank's own spelling.
TypeOK ==
  /\ now \in Nat
  /\ sub \in [Users -> SubRow]
  /\ order \in [Orders -> {Absent} \cup OrderRow]
  /\ call \in [Calls -> CallState]
  /\ invoice \in [Invoices -> {Absent} \cup BankInvoice]
  /\ shown \subseteq Invoices
  /\ payment \in [Payments -> {Absent} \cup BankPayment]

IssuedFor(i, o) == invoice[i] # Absent /\ invoice[i].order = o
AttemptFor(p, o) == payment[p] # Absent /\ IssuedFor(payment[p].invoice, o)
Approved(p) == payment[p] # Absent /\ payment[p].status = "approved"
OrderOf(p) == invoice[payment[p].invoice].order

CallConsistent(c) ==
  /\ call[c].pc \in {"invoice", "save", "poll", "apply", "update", "activate"}
       => Exists(call[c].order)
  /\ call[c].pc \in {"save", "poll"} => IssuedFor(call[c].invoice, call[c].order)
  /\ call[c].pc \in {"apply", "activate"} =>
       /\ AttemptFor(call[c].tx, call[c].order)
       /\ call[c].invoice # NoInvoice => IssuedFor(call[c].invoice, call[c].order)
  /\ call[c].pc = "activate" => Approved(call[c].tx)
  /\ call[c].pc = "apply" =>
       (call[c].result = "approved" => Approved(call[c].tx))

\* What a row or a request in flight refers to exists and belongs to its
\* order, and a request that is about to activate a subscription carries an
\* attempt the bank did approve: what the handlers rely on between statements.
Consistent ==
  /\ \A p \in Payments : payment[p] # Absent => invoice[payment[p].invoice] # Absent
  /\ \A i \in Invoices : invoice[i] # Absent => Exists(invoice[i].order)
  /\ \A o \in Orders : Exists(o) /\ order[o].invoice # NoInvoice =>
       IssuedFor(order[o].invoice, o)
  /\ \A c \in Calls : CallConsistent(c)

\* An account has at most one order that can still be paid: two checkouts,
\* from two devices or under two idempotency keys, end up in one order
\* (reserveSubscriptionCheckout serialises on the subscription row).
OneOpenOrder ==
  \A u \in Users : \A o1, o2 \in FreshOpen(u) : o1 = o2

\* An order is marked paid only on an attempt the bank approved for an
\* invoice of that very order, whichever of the callback and the poll got
\* there first and however stale the poll's answer was.
PaidMeansApproved ==
  \A o \in Orders : order[o].status = "paid" =>
    /\ order[o].tx \in Payments
    /\ Approved(order[o].tx)
    /\ AttemptFor(order[o].tx, o)

\* A paid order keeps its status, its transaction and its invoice: no late
\* callback, stale poll or late saveOBankInvoice touches it again.  A canceled
\* order never becomes payable again, and an order never goes back to
\* "pending", whatever the order in which answers arrive.
OrdersOnlyAdvance ==
  [][\A o \in Orders :
       /\ order[o].status = "paid" => order'[o] = order[o]
       /\ Exists(o) /\ order'[o].status # order[o].status =>
            order[o].status \in Open /\ order'[o].status # "pending"]_vars

\* What the tables say, as the state of PaymentLedger.
Ledger == INSTANCE PaymentLedger WITH
  clock <- now,
  settled <- {o \in Orders : order[o].status = "paid"},
  live <- [u \in Users |-> sub[u].status = "active"],
  plan <- [u \in Users |-> sub[u].plan],
  paidUntil <- [u \in Users |-> sub[u].end]

\* The billing subsystem implements PaymentLedger: however the callback, the
\* poll and the lazy expiry race, an order extends its account exactly once
\* and by its full length, and nothing else moves the end of a paid period.
LedgerSpec == Ledger!Spec

\* An approved attempt that the open order it belongs to has not refused.
Matched(p) ==
  /\ Approved(p)
  /\ IsOpen(OrderOf(p))
  /\ order[OrderOf(p)].invoice = payment[p].invoice
  /\ order[OrderOf(p)].tx \in {p, NoPayment}

CheckoutsStop == <>[](\A u \in Users : ~SubLocked(u))

\* Once customers stop sending checkouts (each one may make a callback the
\* victim of a deadlock), an approved attempt that matches what its order
\* recorded, the invoice and no other transaction, does not leave that order
\* open for ever.
MatchedPaymentSettles ==
  CheckoutsStop => \A p \in Payments : []<>~Matched(p)

-----------------------------------------------------------------------------
(* Claims of the documentation that the code does not keep. *)

\* OBANK.md: a verified payment makes the paid plan available when the app
\* refreshes the status, i.e. an account is never expired while a period it
\* has paid for still runs.
PaidPeriodAvailable ==
  \A u \in Users : sub[u].status = "expired" => sub[u].end <= now

\* OBANK.md: asking statusPayment makes sure a successful payment does not
\* stay pending, i.e. once customers stop sending checkouts, every approved
\* attempt gets its order paid.
SuccessfulPaymentSettles ==
  CheckoutsStop => \A p \in Payments :
    Approved(p) ~> (Approved(p) /\ order[OrderOf(p)].status = "paid")
=============================================================================
