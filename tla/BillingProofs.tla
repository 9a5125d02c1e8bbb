--------------------------- MODULE BillingProofs ---------------------------
(***************************************************************************)
(* Proofs about Billing, for every number of accounts, orders, invoices,   *)
(* payment attempts and concurrent requests, and every length of time.     *)
(***************************************************************************)
EXTENDS Billing, TLAPS

-----------------------------------------------------------------------------
(* What a request carries at each of its statements. *)

LEMMA CallShape ==
  ASSUME NEW c \in Calls, TypeOK
  PROVE  /\ call[c].pc \in {"reserve", "insert"} =>
              call[c] \in [pc : {"reserve", "insert"}, user : Users, key : Keys, offer : Offers]
         /\ call[c].pc = "invoice" => call[c] \in [pc : {"invoice"}, order : Orders]
         /\ call[c].pc = "save" =>
              call[c] \in [pc : {"save"}, order : Orders, invoice : Invoices, link : BOOLEAN]
         /\ call[c].pc = "poll" =>
              call[c] \in [pc : {"poll"}, order : Orders, invoice : Invoices]
         /\ call[c].pc = "apply" =>
              call[c] \in [pc : {"apply"}, order : Orders,
                           invoice : Invoices \cup {NoInvoice}, tx : Payments,
                           result : {"processing", "canceled", "approved"}]
         /\ call[c].pc = "update" =>
              call[c] \in [pc : {"update"}, order : Orders, status : {"processing", "canceled"}]
         /\ call[c].pc = "activate" =>
              call[c] \in [pc : {"activate"}, order : Orders,
                           invoice : Invoices \cup {NoInvoice}, tx : Payments]
         /\ call[c].pc = "expire" => call[c] \in [pc : {"expire"}, user : Users]
  BY DEF TypeOK, CallState, Idle

LEMMA EnsuredTyped ==
  ASSUME NEW s \in SubRow
  PROVE  Inserted(s) \in SubRow /\ Ensured(s) \in SubRow
  BY DEF SubRow, Inserted, Ensured, Lapsed

LEMMA RowTyped ==
  ASSUME NEW o \in Orders, TypeOK, Exists(o)
  PROVE  order[o] \in OrderRow
  BY DEF TypeOK, Exists

LEMMA OpenExists ==
  ASSUME NEW o \in Orders, IsOpen(o)
  PROVE  Exists(o)
  BY DEF IsOpen, Open, Exists, Absent

-----------------------------------------------------------------------------
(* Type correctness. *)

LEMMA GotoTyped ==
  ASSUME TypeOK, NEW c \in Calls, NEW state \in CallState, Goto(c, state)
  PROVE  call' \in [Calls -> CallState]
  BY DEF Goto, TypeOK

LEMMA ReturnTyped ==
  ASSUME TypeOK, NEW c \in Calls, Return(c)
  PROVE  call' \in [Calls -> CallState]
  BY GotoTyped DEF Return, CallState

LEMMA CommitTyped ==
  ASSUME TypeOK, NEW u \in Users, CommitEnsured(u)
  PROVE  sub' \in [Users -> SubRow]
  BY EnsuredTyped DEF CommitEnsured, TypeOK

LEMMA AnswerTyped ==
  ASSUME TypeOK, NEW c \in Calls, NEW o \in Orders, Exists(o), AnswerWith(c, o)
  PROVE  /\ call' \in [Calls -> CallState]
         /\ shown' \subseteq Invoices
  <1>1. order[o] \in OrderRow
    BY RowTyped
  <1>2. CASE order[o].status = "paid" \/ order[o].link
    <2>1. call' \in [Calls -> CallState]
      BY <1>2, ReturnTyped DEF AnswerWith
    <2>2. CASE order[o].status = "paid"
      BY <1>2, <2>1, <2>2 DEF AnswerWith, TypeOK
    <2>3. CASE order[o].status # "paid"
      BY <1>1, <1>2, <2>1, <2>3 DEF AnswerWith, TypeOK, OrderRow, BankInvoice
    <2>4. QED BY <2>2, <2>3
  <1>3. CASE ~(order[o].status = "paid" \/ order[o].link)
    <2>1. [pc |-> "invoice", order |-> o] \in CallState
      BY DEF CallState
    <2>2. QED BY <1>3, <2>1, GotoTyped DEF AnswerWith, TypeOK
  <1>4. QED BY <1>2, <1>3

\* A checkout step keeps every row and every request well typed.
LEMMA CheckoutTyped ==
  ASSUME TypeOK, NEW c \in Calls, Checkout(c)
  PROVE  TypeOK'
  <1>1. ASSUME NEW u \in Users, NEW k \in Keys, NEW f \in Offers, BeginReserve(c, u, k, f)
        PROVE  TypeOK'
    <2>1. [pc |-> "reserve", user |-> u, key |-> k, offer |-> f] \in CallState
      BY DEF CallState
    <2>2. QED BY <1>1, <2>1, GotoTyped DEF BeginReserve, TypeOK
  <1>2. ASSUME NEW o \in Orders, ReserveByKey(c, o)
        PROVE  TypeOK'
    <2>1. call[c].user \in Users /\ Exists(o)
      BY <1>2, CallShape DEF ReserveByKey, ByKey
    <2>2. CASE Refuse(c)
      BY <1>2, <2>2, ReturnTyped DEF ReserveByKey, Refuse, TypeOK
    <2>3. CASE CommitEnsured(call[c].user) /\ AnswerWith(c, o)
      BY <1>2, <2>1, <2>3, CommitTyped, AnswerTyped DEF ReserveByKey, TypeOK
    <2>4. QED BY <1>2, <2>2, <2>3 DEF ReserveByKey
  <1>3. ASSUME NEW o \in Orders, ReserveOpen(c, o)
        PROVE  TypeOK'
    <2>1. call[c].user \in Users /\ Exists(o)
      BY <1>3, CallShape DEF ReserveOpen, FreshOpen
    <2>2. CASE Refuse(c)
      BY <1>3, <2>2, ReturnTyped DEF ReserveOpen, Refuse, TypeOK
    <2>3. CASE CommitEnsured(call[c].user) /\ AnswerWith(c, o)
      BY <1>3, <2>1, <2>3, CommitTyped, AnswerTyped DEF ReserveOpen, TypeOK
    <2>4. QED BY <1>3, <2>2, <2>3 DEF ReserveOpen
  <1>4. ASSUME ReserveNone(c)
        PROVE  TypeOK'
    <2>1. [call[c] EXCEPT !.pc = "insert"] \in CallState
      BY <1>4, CallShape DEF ReserveNone, CallState
    <2>2. QED BY <1>4, <2>1, GotoTyped DEF ReserveNone, TypeOK
  <1>5. ASSUME NEW o \in Orders, InsertOrder(c, o)
        PROVE  TypeOK'
    <2>1. /\ call[c].user \in Users /\ call[c].key \in Keys
          /\ call[c].offer \in Offers
      BY <1>5, CallShape DEF InsertOrder
    <2>2. order' \in [Orders -> {Absent} \cup OrderRow]
      BY <1>5, <2>1, BillingAssumption DEF InsertOrder, TypeOK, OrderRow, OrderStatus, Open
    <2>3. [pc |-> "invoice", order |-> o] \in CallState
      BY DEF CallState
    <2>4. QED
      BY <1>5, <2>1, <2>2, <2>3, GotoTyped, CommitTyped DEF InsertOrder, TypeOK
  <1>6. ASSUME NEW i \in Invoices, NEW link \in BOOLEAN, CreateInvoice(c, i, link)
        PROVE  TypeOK'
    <2>1. call[c].order \in Orders
      BY <1>6, CallShape DEF CreateInvoice
    <2>2. [pc |-> "save", order |-> call[c].order, invoice |-> i, link |-> link] \in CallState
      BY <2>1 DEF CallState
    <2>3. invoice' \in [Invoices -> {Absent} \cup BankInvoice]
      BY <1>6, <2>1, BillingAssumption DEF CreateInvoice, TypeOK, BankInvoice
    <2>4. QED BY <1>6, <2>2, <2>3, GotoTyped DEF CreateInvoice, TypeOK
  <1>7. ASSUME SaveInvoice(c)
        PROVE  TypeOK'
    <2>1. /\ call[c].order \in Orders /\ call[c].invoice \in Invoices
          /\ call[c].link \in BOOLEAN
      BY <1>7, CallShape DEF SaveInvoice
    <2>2. call' \in [Calls -> CallState]
      BY <1>7, ReturnTyped DEF SaveInvoice
    <2>3. CASE IsOpen(call[c].order)
      <3>1. order[call[c].order] \in OrderRow
        BY <2>1, <2>3, OpenExists, RowTyped
      <3>2. order' \in [Orders -> {Absent} \cup OrderRow]
        BY <1>7, <2>1, <2>3, <3>1, BillingAssumption DEF SaveInvoice, TypeOK, OrderRow
      <3>3. shown' \subseteq Invoices
        BY <1>7, <2>1, <2>3 DEF SaveInvoice, TypeOK
      <3>4. QED BY <1>7, <2>2, <3>2, <3>3 DEF SaveInvoice, TypeOK
    <2>4. CASE ~IsOpen(call[c].order)
      BY <1>7, <2>2, <2>4 DEF SaveInvoice, TypeOK
    <2>5. QED BY <2>3, <2>4
  <1>8. QED BY <1>1, <1>2, <1>3, <1>4, <1>5, <1>6, <1>7 DEF Checkout

\* So does a step of applyOBankResult,
LEMMA CallbackTyped ==
  ASSUME TypeOK, Consistent, NEW c \in Calls, Callback(c)
  PROVE  TypeOK'
  <1>1. ASSUME NEW p \in Payments, NEW i \in Invoices \cup {NoInvoice},
               NEW result \in {"processing", "canceled", "approved"},
               ReceiveCallback(c, p, result, i)
        PROVE  TypeOK'
    <2>1. payment[p] \in BankPayment
      BY <1>1 DEF ReceiveCallback, TypeOK
    <2>2. invoice[payment[p].invoice] \in BankInvoice
      BY <1>1, <2>1 DEF ReceiveCallback, TypeOK, BankPayment, Consistent
    <2>3. [pc |-> "apply", order |-> invoice[payment[p].invoice].order,
           invoice |-> i, tx |-> p, result |-> result] \in CallState
      BY <2>2 DEF CallState, BankInvoice
    <2>4. QED BY <1>1, <2>3, GotoTyped DEF ReceiveCallback, TypeOK
  <1>2. ASSUME ApplyIgnored(c)
        PROVE  TypeOK'
    BY <1>2, ReturnTyped DEF ApplyIgnored, TypeOK
  <1>3. ASSUME ApplyStatus(c)
        PROVE  TypeOK'
    <2> DEFINE o == call[c].order
    <2>1. /\ o \in Orders /\ call[c].tx \in Payments
          /\ call[c].invoice \in Invoices \cup {NoInvoice}
          /\ call[c].result \in {"processing", "canceled"}
      BY <1>3, CallShape DEF ApplyStatus
    <2>2. order[o] \in OrderRow
      BY <1>3, <2>1, RowTyped DEF ApplyStatus, Consistent, CallConsistent
    <2>3. Recorded(o, call[c].result, call[c]) \in OrderRow
      BY <2>1, <2>2 DEF Recorded, Coalesce, OrderRow, OrderStatus, Open
    <2>4. QED BY <1>3, <2>1, <2>3, ReturnTyped DEF ApplyStatus, TypeOK
  <1>4. ASSUME ApplyApproved(c)
        PROVE  TypeOK'
    <2>1. [pc |-> "activate", order |-> call[c].order,
           invoice |-> call[c].invoice, tx |-> call[c].tx] \in CallState
      BY <1>4, CallShape DEF ApplyApproved, CallState
    <2>2. QED BY <1>4, <2>1, GotoTyped DEF ApplyApproved, TypeOK
  <1>5. ASSUME Activate(c)
        PROVE  TypeOK'
    <2> DEFINE o == call[c].order
               u == order[o].user
               f == order[o].offer
    <2>1. /\ o \in Orders /\ call[c].tx \in Payments
          /\ call[c].invoice \in Invoices \cup {NoInvoice}
      BY <1>5, CallShape DEF Activate
    <2>2. order[o] \in OrderRow
      BY <1>5, <2>1, OpenExists, RowTyped DEF Activate
    <2>3. u \in Users /\ f \in Offers
      BY <2>2 DEF OrderRow
    <2>4. Ensured(sub[u]) \in SubRow
      BY <2>3, EnsuredTyped DEF TypeOK
    <2>5. PeriodStart(Ensured(sub[u])) + PeriodLen[f] \in Nat
      BY <2>3, <2>4, BillingAssumption DEF PeriodStart, SubRow, TypeOK
    <2>6. sub' \in [Users -> SubRow]
      BY <1>5, <2>3, <2>5 DEF Activate, TypeOK, SubRow
    <2>7. order' \in [Orders -> {Absent} \cup OrderRow]
      BY <1>5, <2>1, <2>2 DEF Activate, TypeOK, Coalesce, OrderRow, OrderStatus, Open
    <2>8. QED BY <1>5, <2>6, <2>7, ReturnTyped DEF Activate, TypeOK
  <1>6. QED BY <1>1, <1>2, <1>3, <1>4, <1>5 DEF Callback

\* a step of the status poll,
LEMMA PollTyped ==
  ASSUME TypeOK, Consistent, NEW c \in Calls, Poll(c)
  PROVE  TypeOK'
  <1>1. ASSUME NEW o \in Orders, ClaimStatusCheck(c, o)
        PROVE  TypeOK'
    <2>1. order[o].invoice \in Invoices
      BY <1>1, RowTyped DEF ClaimStatusCheck, OrderRow
    <2>2. [pc |-> "poll", order |-> o, invoice |-> order[o].invoice] \in CallState
      BY <2>1 DEF CallState
    <2>3. QED BY <1>1, <2>2, GotoTyped DEF ClaimStatusCheck, TypeOK
  <1>2. ASSUME NEW p \in Payments, PollApproved(c, p)
        PROVE  TypeOK'
    <2>1. [pc |-> "apply", order |-> call[c].order, invoice |-> call[c].invoice,
           tx |-> p, result |-> "approved"] \in CallState
      BY <1>2, CallShape DEF PollApproved, CallState
    <2>2. QED BY <1>2, <2>1, GotoTyped DEF PollApproved, TypeOK
  <1>3. ASSUME NEW status \in {"processing", "canceled"}, PollStatus(c, status)
        PROVE  TypeOK'
    <2>1. [pc |-> "update", order |-> call[c].order, status |-> status] \in CallState
      BY <1>3, CallShape DEF PollStatus, CallState
    <2>2. QED BY <1>3, <2>1, GotoTyped DEF PollStatus, TypeOK
  <1>4. ASSUME UpdatePaymentStatus(c)
        PROVE  TypeOK'
    <2>1. call[c].order \in Orders /\ call[c].status \in {"processing", "canceled"}
      BY <1>4, CallShape DEF UpdatePaymentStatus
    <2>2. order[call[c].order] \in OrderRow
      BY <1>4, <2>1, RowTyped DEF UpdatePaymentStatus, Consistent, CallConsistent
    <2>3. order' \in [Orders -> {Absent} \cup OrderRow]
      BY <1>4, <2>1, <2>2 DEF UpdatePaymentStatus, TypeOK, OrderRow, OrderStatus, Open
    <2>4. QED BY <1>4, <2>3, ReturnTyped DEF UpdatePaymentStatus, TypeOK
  <1>5. QED BY <1>1, <1>2, <1>3, <1>4 DEF Poll

\* a status request, a stopped request, the bank and the clock.
LEMMA OtherTyped ==
  ASSUME TypeOK,
         (\E c \in Calls : StatusRequest(c) \/ Abort(c)) \/ Bank \/ Tick
  PROVE  TypeOK'
  <1>1. ASSUME NEW c \in Calls, NEW u \in Users, ReadSubscription(c, u)
        PROVE  TypeOK'
    <2>1. sub' \in [Users -> SubRow]
      BY <1>1, EnsuredTyped DEF ReadSubscription, TypeOK
    <2>2. [pc |-> "expire", user |-> u] \in CallState
      BY DEF CallState
    <2>3. call' \in [Calls -> CallState]
      BY <1>1, <2>2, GotoTyped DEF ReadSubscription, TypeOK
    <2>4. QED BY <1>1, <2>1, <2>3 DEF ReadSubscription, TypeOK
  <1>2. ASSUME NEW c \in Calls, ExpireSubscription(c)
        PROVE  TypeOK'
    <2>1. call[c].user \in Users
      BY <1>2, CallShape DEF ExpireSubscription
    <2>2. sub' \in [Users -> SubRow]
      BY <1>2, <2>1 DEF ExpireSubscription, TypeOK, SubRow
    <2>3. QED BY <1>2, <2>2, ReturnTyped DEF ExpireSubscription, TypeOK
  <1>3. ASSUME NEW c \in Calls, Abort(c)
        PROVE  TypeOK'
    BY <1>3, ReturnTyped DEF Abort, TypeOK
  <1>4. ASSUME NEW p \in Payments, NEW i \in Invoices, PayInvoice(p, i)
        PROVE  TypeOK'
    BY <1>4 DEF PayInvoice, TypeOK, BankPayment
  <1>5. ASSUME NEW p \in Payments, NEW status \in {"approved", "canceled"},
               SettleAttempt(p, status)
        PROVE  TypeOK'
    BY <1>5 DEF SettleAttempt, TypeOK, BankPayment
  <1>6. ASSUME Tick
        PROVE  TypeOK'
    BY <1>6 DEF Tick, TypeOK
  <1>7. QED BY <1>1, <1>2, <1>3, <1>4, <1>5, <1>6 DEF StatusRequest, Bank

LEMMA InitTyped == Init => TypeOK
  BY DEF Init, TypeOK, NoSub, SubRow, CallState

LEMMA NextTyped == TypeOK /\ Consistent /\ [Next]_vars => TypeOK'
  <1> SUFFICES ASSUME TypeOK, Consistent, [Next]_vars
               PROVE  TypeOK'
    OBVIOUS
  <1>1. CASE Next
    BY <1>1, CheckoutTyped, CallbackTyped, PollTyped, OtherTyped DEF Next
  <1>2. CASE UNCHANGED vars
    BY <1>2 DEF vars, TypeOK
  <1>3. QED BY <1>1, <1>2

-----------------------------------------------------------------------------
(* Consistency of references.  No step forgets a row, an invoice or an     *)
(* approval, so what was consistent stays so, and each action only has to  *)
(* account for the order it writes and the request it moves.               *)

Keeps ==
  /\ \A i \in Invoices : invoice[i] # Absent => invoice'[i] = invoice[i]
  /\ \A o \in Orders : Exists(o) => Exists(o)'
  /\ \A p \in Payments : payment[p] # Absent =>
       /\ payment'[p] # Absent
       /\ payment'[p].invoice = payment[p].invoice
       /\ payment[p].status = "approved" => payment'[p].status = "approved"

OthersWait(c) == \A d \in Calls : d # c => call'[d] = call[d]

\* Every order either keeps its invoice or gets one issued for it.
OrdersConsistent ==
  \A o \in Orders : Exists(o)' =>
    \/ order'[o].invoice = NoInvoice
    \/ Exists(o) /\ order'[o].invoice = order[o].invoice
    \/ IssuedFor(order[o].invoice, o)'

LEMMA StillIssued ==
  ASSUME Keeps, NEW i \in Invoices, NEW o \in Orders, IssuedFor(i, o)
  PROVE  invoice'[i] # Absent /\ invoice'[i].order = o
  BY DEF Keeps, IssuedFor

LEMMA StillAttempt ==
  ASSUME TypeOK, Keeps, NEW p \in Payments, NEW o \in Orders, AttemptFor(p, o)
  PROVE  AttemptFor(p, o)'
  <1>1. payment[p].invoice \in Invoices
    BY DEF TypeOK, BankPayment, AttemptFor
  <1>2. QED BY <1>1, StillIssued DEF Keeps, AttemptFor, IssuedFor

LEMMA StillApproved ==
  ASSUME Keeps, NEW p \in Payments, Approved(p)
  PROVE  Approved(p)'
  BY DEF Keeps, Approved

LEMMA CallStays ==
  ASSUME TypeOK, Keeps, NEW c \in Calls, CallConsistent(c), call'[c] = call[c]
  PROVE  CallConsistent(c)'
  <1>1. CASE call[c].pc \in {"invoice", "update"}
    BY <1>1, CallShape DEF CallConsistent, Keeps
  <1>2. CASE call[c].pc \in {"save", "poll"}
    <2>1. call[c].order \in Orders /\ call[c].invoice \in Invoices
      BY <1>2, CallShape
    <2>2. Exists(call[c].order)'
      BY <1>2, <2>1 DEF CallConsistent, Keeps, Exists
    <2>3. IssuedFor(call[c].invoice, call[c].order)'
      BY <1>2, <2>1, StillIssued DEF CallConsistent, IssuedFor
    <2>4. QED BY <1>2, <2>2, <2>3 DEF CallConsistent
  <1>3. CASE call[c].pc \in {"apply", "activate"}
    <2>1. /\ call[c].order \in Orders /\ call[c].tx \in Payments
          /\ call[c].invoice \in Invoices \cup {NoInvoice}
      BY <1>3, CallShape
    <2>2. Exists(call[c].order)'
      BY <1>3, <2>1 DEF CallConsistent, Keeps, Exists
    <2>3. AttemptFor(call[c].tx, call[c].order)'
      BY <1>3, <2>1, StillAttempt DEF CallConsistent, AttemptFor, IssuedFor
    <2>4. (call[c].invoice # NoInvoice => IssuedFor(call[c].invoice, call[c].order))'
      BY <1>3, <2>1, StillIssued DEF CallConsistent, IssuedFor
    <2>5. Approved(call[c].tx) => Approved(call[c].tx)'
      BY <2>1, StillApproved DEF Approved
    <2>6. QED BY <1>3, <2>2, <2>3, <2>4, <2>5 DEF CallConsistent
  <1>4. CASE call[c].pc \notin {"invoice", "update", "save", "poll", "apply", "activate"}
    BY <1>4 DEF CallConsistent
  <1>5. QED BY <1>1, <1>2, <1>3, <1>4

\* What an API step has to show.
LEMMA ConsistentStep ==
  ASSUME TypeOK, TypeOK', Consistent, Keeps, NEW c \in Calls, OthersWait(c),
         CallConsistent(c)', OrdersConsistent,
         UNCHANGED payment,
         (\A i \in Invoices : invoice[i] # Absent => Exists(invoice[i].order))'
  PROVE  Consistent'
  <1>1. (\A p \in Payments : payment[p] # Absent => invoice[payment[p].invoice] # Absent)'
    BY DEF Consistent, Keeps, TypeOK, BankPayment
  <1>2. (\A o \in Orders : Exists(o) /\ order[o].invoice # NoInvoice =>
           IssuedFor(order[o].invoice, o))'
    <2> SUFFICES ASSUME NEW o \in Orders, Exists(o)', order'[o].invoice # NoInvoice
                 PROVE  IssuedFor(order[o].invoice, o)'
      OBVIOUS
    <2>1. CASE Exists(o) /\ order'[o].invoice = order[o].invoice
      <3>1. order[o].invoice \in Invoices
        BY <2>1, RowTyped DEF OrderRow
      <3>2. IssuedFor(order[o].invoice, o)
        BY <2>1 DEF Consistent
      <3>3. /\ invoice'[order[o].invoice] # Absent
            /\ invoice'[order[o].invoice].order = o
        BY <3>1, <3>2, StillIssued
      <3>4. QED BY <2>1, <3>3 DEF IssuedFor
    <2>2. QED BY <2>1 DEF OrdersConsistent
  <1>3. (\A d \in Calls : CallConsistent(d))'
    BY CallStays DEF Consistent, OthersWait
  <1>4. QED BY <1>1, <1>2, <1>3 DEF Consistent

LEMMA SameInvoices ==
  ASSUME TypeOK, Consistent, Keeps, UNCHANGED invoice
  PROVE  (\A i \in Invoices : invoice[i] # Absent => Exists(invoice[i].order))'
  BY DEF TypeOK, BankInvoice, Consistent, Keeps, Exists

LEMMA QuietStep ==
  ASSUME TypeOK, TypeOK', Consistent, NEW c \in Calls, OthersWait(c),
         CallConsistent(c)', UNCHANGED <<order, invoice, payment>>
  PROVE  Consistent'
  <1>1. Keeps /\ OrdersConsistent
    BY DEF Keeps, OrdersConsistent, Exists
  <1>2. (\A i \in Invoices : invoice[i] # Absent => Exists(invoice[i].order))'
    BY DEF Consistent, Exists
  <1>3. QED BY <1>1, <1>2, ConsistentStep

LEMMA GotoCall ==
  ASSUME TypeOK, NEW c \in Calls, NEW state, Goto(c, state)
  PROVE  call'[c] = state /\ OthersWait(c)
  BY DEF Goto, TypeOK, OthersWait

\* A request that holds no order refers to nothing.
LEMMA RestingCall ==
  ASSUME NEW c \in Calls, call'[c].pc \in {"idle", "reserve", "insert", "expire"}
  PROVE  CallConsistent(c)'
  BY DEF CallConsistent

LEMMA ReturnCall ==
  ASSUME TypeOK, NEW c \in Calls, Return(c)
  PROVE  OthersWait(c) /\ CallConsistent(c)'
  <1>1. call'[c] = Idle /\ OthersWait(c)
    BY GotoCall DEF Return
  <1>2. QED BY <1>1, RestingCall DEF Idle

LEMMA AnswerCall ==
  ASSUME TypeOK, NEW c \in Calls, NEW o \in Orders, Exists(o), UNCHANGED order,
         AnswerWith(c, o)
  PROVE  OthersWait(c) /\ CallConsistent(c)'
  <1>1. CASE Return(c)
    BY <1>1, ReturnCall
  <1>2. CASE Goto(c, [pc |-> "invoice", order |-> o])
    <2>1. call'[c] = [pc |-> "invoice", order |-> o] /\ OthersWait(c)
      BY <1>2, GotoCall
    <2>2. QED BY <2>1 DEF CallConsistent, Exists
  <1>3. QED BY <1>1, <1>2 DEF AnswerWith

LEMMA CheckoutConsistent ==
  ASSUME TypeOK, TypeOK', Consistent, NEW c \in Calls, Checkout(c)
  PROVE  Consistent'
  <1>1. ASSUME NEW u \in Users, NEW k \in Keys, NEW f \in Offers, BeginReserve(c, u, k, f)
        PROVE  Consistent'
    <2>1. call'[c].pc = "reserve" /\ OthersWait(c)
      BY <1>1, GotoCall DEF BeginReserve
    <2>2. QED BY <1>1, <2>1, RestingCall, QuietStep DEF BeginReserve
  <1>2. ASSUME NEW o \in Orders, ReserveByKey(c, o) \/ ReserveOpen(c, o)
        PROVE  Consistent'
    <2>1. Exists(o) /\ UNCHANGED <<order, invoice, payment>>
      BY <1>2 DEF ReserveByKey, ReserveOpen, ByKey, FreshOpen
    <2>2. Return(c) \/ AnswerWith(c, o)
      BY <1>2 DEF ReserveByKey, ReserveOpen, Refuse
    <2>3. QED BY <2>1, <2>2, ReturnCall, AnswerCall, QuietStep
  <1>3. ASSUME ReserveNone(c)
        PROVE  Consistent'
    <2>1. call'[c] = [call[c] EXCEPT !.pc = "insert"] /\ OthersWait(c)
      BY <1>3, GotoCall DEF ReserveNone
    <2>2. call'[c].pc = "insert"
      BY <1>3, <2>1, CallShape DEF ReserveNone
    <2>3. QED BY <1>3, <2>1, <2>2, RestingCall, QuietStep DEF ReserveNone
  <1>4. ASSUME NEW o \in Orders, InsertOrder(c, o)
        PROVE  Consistent'
    <2>1. call'[c] = [pc |-> "invoice", order |-> o] /\ OthersWait(c)
      BY <1>4, GotoCall DEF InsertOrder
    <2>2. order'[o].status = "pending" /\ order'[o].invoice = NoInvoice
      BY <1>4 DEF InsertOrder, TypeOK
    <2>3. \A x \in Orders : x # o => order'[x] = order[x]
      BY <1>4 DEF InsertOrder, TypeOK
    <2>4. Exists(o)'
      BY <2>2 DEF Exists, Absent
    <2>5. Keeps /\ OrdersConsistent
      BY <1>4, <2>2, <2>3, <2>4 DEF InsertOrder, Keeps, OrdersConsistent, Exists
    <2>6. CallConsistent(c)'
      BY <2>1, <2>4 DEF CallConsistent
    <2>7. (\A i \in Invoices : invoice[i] # Absent => Exists(invoice[i].order))'
      BY <1>4, <2>3, <2>4 DEF InsertOrder, Consistent, Exists
    <2>8. QED BY <1>4, <2>1, <2>5, <2>6, <2>7, ConsistentStep DEF InsertOrder
  <1>5. ASSUME NEW i \in Invoices, NEW link \in BOOLEAN, CreateInvoice(c, i, link)
        PROVE  Consistent'
    <2> DEFINE o == call[c].order
    <2>1. o \in Orders /\ Exists(o)
      BY <1>5, CallShape DEF CreateInvoice, Consistent, CallConsistent
    <2>2. /\ call'[c] = [pc |-> "save", order |-> o, invoice |-> i, link |-> link]
          /\ OthersWait(c)
      BY <1>5, GotoCall DEF CreateInvoice
    <2>3. invoice'[i] = [order |-> o, until |-> now + OrderLife]
      BY <1>5 DEF CreateInvoice, TypeOK
    <2>4. invoice'[i] # Absent
      BY <2>3 DEF Absent
    <2>5. \A x \in Invoices : x # i => invoice'[x] = invoice[x]
      BY <1>5 DEF CreateInvoice, TypeOK
    <2>6. Keeps /\ OrdersConsistent
      BY <1>5, <2>5 DEF CreateInvoice, Keeps, OrdersConsistent, Exists
    <2>7. CallConsistent(c)'
      BY <1>5, <2>1, <2>2, <2>3, <2>4
         DEF CreateInvoice, CallConsistent, IssuedFor, Exists
    <2>8. (\A x \in Invoices : invoice[x] # Absent => Exists(invoice[x].order))'
      BY <1>5, <2>1, <2>3, <2>5 DEF CreateInvoice, Consistent, Exists
    <2>9. QED BY <1>5, <2>2, <2>6, <2>7, <2>8, ConsistentStep DEF CreateInvoice
  <1>6. ASSUME SaveInvoice(c)
        PROVE  Consistent'
    <2>1. PICK o \in Orders : o = call[c].order
      BY <1>6, CallShape DEF SaveInvoice
    <2>2. PICK i \in Invoices : i = call[c].invoice
      BY <1>6, CallShape DEF SaveInvoice
    <2>3. Exists(o) /\ IssuedFor(i, o)
      BY <1>6, <2>1, <2>2 DEF SaveInvoice, Consistent, CallConsistent
    <2>4. OthersWait(c) /\ CallConsistent(c)'
      BY <1>6, ReturnCall DEF SaveInvoice
    <2>5. CASE ~IsOpen(o)
      BY <1>6, <2>1, <2>4, <2>5, QuietStep DEF SaveInvoice
    <2>6. CASE IsOpen(o)
      <3>1. \A x \in Orders : x # o => order'[x] = order[x]
        BY <1>6, <2>1, <2>6 DEF SaveInvoice, TypeOK
      <3>2. order[o] \in OrderRow
        BY <2>3, RowTyped
      <3>3. order'[o].status = order[o].status /\ order'[o].invoice = i
        BY <1>6, <2>1, <2>2, <2>6, <3>2 DEF SaveInvoice, TypeOK, OrderRow
      <3>4. Exists(o)'
        BY <2>6, <3>3 DEF Exists, Absent, IsOpen, Open
      <3>5. Keeps
        BY <1>6, <3>1, <3>4 DEF SaveInvoice, Keeps, Exists
      <3>6. IssuedFor(i, o)'
        BY <2>3, <3>5, StillIssued DEF IssuedFor
      <3>7. OrdersConsistent
        BY <3>1, <3>3, <3>6 DEF OrdersConsistent, Exists, IssuedFor
      <3>8. (\A x \in Invoices : invoice[x] # Absent => Exists(invoice[x].order))'
        BY <1>6, <3>5, SameInvoices DEF SaveInvoice
      <3>9. QED BY <1>6, <2>4, <3>5, <3>7, <3>8, ConsistentStep DEF SaveInvoice
    <2>7. QED BY <2>5, <2>6
  <1>7. QED BY <1>1, <1>2, <1>3, <1>4, <1>5, <1>6 DEF Checkout

\* applyOBankResult reached from a callback.
LEMMA CallbackConsistent ==
  ASSUME TypeOK, TypeOK', Consistent, NEW c \in Calls, Callback(c)
  PROVE  Consistent'
  <1>1. ASSUME NEW p \in Payments, NEW i \in Invoices \cup {NoInvoice},
               NEW result \in {"processing", "canceled", "approved"},
               ReceiveCallback(c, p, result, i)
        PROVE  Consistent'
    <2>1. PICK o \in Orders : o = invoice[payment[p].invoice].order
      BY <1>1 DEF ReceiveCallback, TypeOK, BankPayment, BankInvoice, Consistent
    <2>2. Exists(o) /\ AttemptFor(p, o)
      BY <1>1, <2>1 DEF ReceiveCallback, TypeOK, BankPayment, Consistent, AttemptFor, IssuedFor
    <2>3. i # NoInvoice => IssuedFor(i, o)
      BY <1>1, <2>2 DEF ReceiveCallback, AttemptFor
    <2>4. result = "approved" => Approved(p)
      BY <1>1 DEF ReceiveCallback, Approved
    <2>5. /\ call'[c] = [pc |-> "apply", order |-> o, invoice |-> i,
                         tx |-> p, result |-> result]
          /\ OthersWait(c)
      BY <1>1, <2>1, GotoCall DEF ReceiveCallback
    <2>6. UNCHANGED <<order, invoice, payment>>
      BY <1>1 DEF ReceiveCallback
    <2>7. CallConsistent(c)'
      BY <2>2, <2>3, <2>4, <2>5, <2>6
         DEF CallConsistent, Exists, AttemptFor, IssuedFor, Approved
    <2>8. QED BY <2>5, <2>6, <2>7, QuietStep
  <1>2. ASSUME ApplyIgnored(c)
        PROVE  Consistent'
    BY <1>2, ReturnCall, QuietStep DEF ApplyIgnored
  <1>3. ASSUME ApplyStatus(c) \/ Activate(c)
        PROVE  Consistent'
    <2>1. /\ call[c].order \in Orders
          /\ call[c].invoice \in Invoices \cup {NoInvoice}
          /\ call[c].pc \in {"apply", "activate"}
      BY <1>3, CallShape DEF ApplyStatus, Activate
    <2>2. PICK o \in Orders : o = call[c].order
      BY <2>1
    <2>3. PICK i \in Invoices \cup {NoInvoice} : i = call[c].invoice
      BY <2>1
    <2>4. Exists(o) /\ (i # NoInvoice => IssuedFor(i, o))
      BY <2>1, <2>2, <2>3 DEF Consistent, CallConsistent
    <2>5. OthersWait(c) /\ CallConsistent(c)'
      BY <1>3, ReturnCall DEF ApplyStatus, Activate
    <2>6. UNCHANGED <<invoice, payment>>
      BY <1>3 DEF ApplyStatus, Activate
    <2>7. order[o] \in OrderRow
      BY <2>4, RowTyped
    <2>8. \A x \in Orders : x # o => order'[x] = order[x]
      BY <1>3, <2>2 DEF ApplyStatus, Activate, TypeOK
    <2>9. /\ order'[o].status \in OrderStatus
          /\ order'[o].invoice = Coalesce(order[o].invoice, NoInvoice, i)
      <3>1. CASE ApplyStatus(c)
        BY <2>2, <2>3, <2>7, <3>1 DEF ApplyStatus, TypeOK, Recorded, OrderRow, OrderStatus, Open
      <3>2. CASE Activate(c)
        BY <2>2, <2>3, <2>7, <3>2 DEF Activate, TypeOK, OrderRow, OrderStatus
      <3>3. QED BY <1>3, <3>1, <3>2
    <2>10. Exists(o)'
      BY <2>9 DEF Exists, Absent, OrderStatus, Open
    <2>11. Keeps
      BY <2>6, <2>8, <2>10 DEF Keeps, Exists
    <2>12. i # NoInvoice => IssuedFor(i, o)'
      BY <2>4, <2>11, StillIssued DEF IssuedFor
    <2>13. OrdersConsistent
      BY <2>4, <2>8, <2>9, <2>12 DEF OrdersConsistent, Coalesce, Exists, IssuedFor
    <2>14. QED BY <2>5, <2>6, <2>11, <2>13, SameInvoices, ConsistentStep
  <1>4. ASSUME ApplyApproved(c)
        PROVE  Consistent'
    <2>1. /\ call'[c] = [pc |-> "activate", order |-> call[c].order,
                         invoice |-> call[c].invoice, tx |-> call[c].tx]
          /\ OthersWait(c)
      BY <1>4, GotoCall DEF ApplyApproved
    <2>2. UNCHANGED <<order, invoice, payment>>
      BY <1>4 DEF ApplyApproved
    <2>3. CallConsistent(c)'
      BY <1>4, <2>1, <2>2 DEF ApplyApproved, Consistent, CallConsistent, Exists,
                              AttemptFor, IssuedFor, Approved
    <2>4. QED BY <2>1, <2>2, <2>3, QuietStep
  <1>5. QED BY <1>1, <1>2, <1>3, <1>4 DEF Callback

\* The status poll: what it learns from the bank is about the order it asks for.
LEMMA PollConsistent ==
  ASSUME TypeOK, TypeOK', Consistent, NEW c \in Calls, Poll(c)
  PROVE  Consistent'
  <1>1. ASSUME NEW o \in Orders, ClaimStatusCheck(c, o)
        PROVE  Consistent'
    <2>1. PICK i \in Invoices : i = order[o].invoice
      BY <1>1, RowTyped DEF ClaimStatusCheck, OrderRow
    <2>2. Exists(o) /\ IssuedFor(i, o)
      BY <1>1, <2>1 DEF ClaimStatusCheck, Consistent
    <2>3. call'[c] = [pc |-> "poll", order |-> o, invoice |-> i] /\ OthersWait(c)
      BY <1>1, <2>1, GotoCall DEF ClaimStatusCheck
    <2>4. UNCHANGED <<order, invoice, payment>>
      BY <1>1 DEF ClaimStatusCheck
    <2>5. CallConsistent(c)'
      BY <2>2, <2>3, <2>4 DEF CallConsistent, Exists, IssuedFor
    <2>6. QED BY <2>3, <2>4, <2>5, QuietStep
  <1>2. ASSUME NEW p \in Payments, PollApproved(c, p)
        PROVE  Consistent'
    <2>1. PICK o \in Orders : o = call[c].order
      BY <1>2, CallShape DEF PollApproved
    <2>2. PICK i \in Invoices : i = call[c].invoice
      BY <1>2, CallShape DEF PollApproved
    <2>3. Exists(o) /\ IssuedFor(i, o)
      BY <1>2, <2>1, <2>2 DEF PollApproved, Consistent, CallConsistent
    <2>4. Approved(p) /\ AttemptFor(p, o)
      BY <1>2, <2>2, <2>3 DEF PollApproved, AttemptsIn, Attempts, Approved, AttemptFor
    <2>5. /\ call'[c] = [pc |-> "apply", order |-> o, invoice |-> i,
                         tx |-> p, result |-> "approved"]
          /\ OthersWait(c)
      BY <1>2, <2>1, <2>2, GotoCall DEF PollApproved
    <2>6. UNCHANGED <<order, invoice, payment>>
      BY <1>2 DEF PollApproved
    <2>7. CallConsistent(c)'
      BY <2>3, <2>4, <2>5, <2>6 DEF CallConsistent, Exists, AttemptFor, IssuedFor, Approved
    <2>8. QED BY <2>5, <2>6, <2>7, QuietStep
  <1>3. ASSUME NEW status \in {"processing", "canceled"}, PollStatus(c, status)
        PROVE  Consistent'
    <2>1. PICK o \in Orders : o = call[c].order
      BY <1>3, CallShape DEF PollStatus
    <2>2. Exists(o)
      BY <1>3, <2>1 DEF PollStatus, Consistent, CallConsistent
    <2>3. call'[c] = [pc |-> "update", order |-> o, status |-> status] /\ OthersWait(c)
      BY <1>3, <2>1, GotoCall DEF PollStatus
    <2>4. UNCHANGED <<order, invoice, payment>>
      BY <1>3 DEF PollStatus
    <2>5. CallConsistent(c)'
      BY <2>2, <2>3, <2>4 DEF CallConsistent, Exists
    <2>6. QED BY <2>3, <2>4, <2>5, QuietStep
  <1>4. ASSUME UpdatePaymentStatus(c)
        PROVE  Consistent'
    <2>1. PICK o \in Orders : o = call[c].order
      BY <1>4, CallShape DEF UpdatePaymentStatus
    <2>2. OthersWait(c) /\ CallConsistent(c)'
      BY <1>4, ReturnCall DEF UpdatePaymentStatus
    <2>3. UNCHANGED <<invoice, payment>>
      BY <1>4 DEF UpdatePaymentStatus
    <2>4. CASE ~IsOpen(o)
      BY <1>4, <2>1, <2>2, <2>3, <2>4, QuietStep DEF UpdatePaymentStatus
    <2>5. CASE IsOpen(o)
      <3>1. order[o] \in OrderRow
        BY <2>5, OpenExists, RowTyped
      <3>2. \A x \in Orders : x # o => order'[x] = order[x]
        BY <1>4, <2>1, <2>5 DEF UpdatePaymentStatus, TypeOK
      <3>3. order'[o].status \in {"processing", "canceled"}
            /\ order'[o].invoice = order[o].invoice
        BY <1>4, <2>1, <2>5, <3>1, CallShape DEF UpdatePaymentStatus, TypeOK, OrderRow
      <3>4. Exists(o) /\ Exists(o)'
        BY <2>5, <3>3, OpenExists DEF Exists, Absent
      <3>5. Keeps /\ OrdersConsistent
        BY <2>3, <3>2, <3>3, <3>4 DEF Keeps, OrdersConsistent, Exists
      <3>6. QED BY <2>2, <2>3, <3>5, SameInvoices, ConsistentStep
    <2>6. QED BY <2>4, <2>5
  <1>5. QED BY <1>1, <1>2, <1>3, <1>4 DEF Poll

\* The bank only adds attempts and settles those in progress.
LEMMA BankKeeps ==
  ASSUME TypeOK, Bank
  PROVE  /\ Keeps
         /\ UNCHANGED <<order, call, invoice>>
         /\ \A p \in Payments : payment'[p] # Absent =>
              \/ payment[p] # Absent
              \/ invoice[payment'[p].invoice] # Absent
  <1>1. ASSUME NEW p \in Payments, NEW i \in Invoices, PayInvoice(p, i)
        PROVE  /\ payment'[p] = [status |-> "processing", invoice |-> i]
               /\ \A q \in Payments : q # p => payment'[q] = payment[q]
    BY <1>1 DEF PayInvoice, TypeOK
  <1>2. ASSUME NEW p \in Payments, NEW status \in {"approved", "canceled"},
               SettleAttempt(p, status)
        PROVE  /\ payment[p] \in BankPayment
               /\ payment'[p] = [payment[p] EXCEPT !.status = status]
               /\ \A q \in Payments : q # p => payment'[q] = payment[q]
    BY <1>2 DEF SettleAttempt, TypeOK
  <1>3. ASSUME NEW p \in Payments, NEW i \in Invoices, PayInvoice(p, i)
        PROVE  /\ Keeps
               /\ UNCHANGED <<order, call, invoice>>
               /\ \A q \in Payments : payment'[q] # Absent =>
                    payment[q] # Absent \/ invoice[payment'[q].invoice] # Absent
    <2>1. payment[p] = Absent /\ invoice[i] # Absent /\ UNCHANGED <<order, call, invoice>>
      BY <1>3 DEF PayInvoice
    <2>2. payment'[p] = [status |-> "processing", invoice |-> i]
      BY <1>1, <1>3
    <2>3. \A q \in Payments : q # p => payment'[q] = payment[q]
      BY <1>1, <1>3
    <2>4. Keeps
      BY <2>1, <2>3 DEF Keeps, Exists
    <2>5. \A q \in Payments : payment'[q] # Absent =>
            payment[q] # Absent \/ invoice[payment'[q].invoice] # Absent
      BY <2>1, <2>2, <2>3
    <2>6. QED BY <2>1, <2>4, <2>5
  <1>4. ASSUME NEW p \in Payments, NEW status \in {"approved", "canceled"},
               SettleAttempt(p, status)
        PROVE  /\ Keeps
               /\ UNCHANGED <<order, call, invoice>>
               /\ \A q \in Payments : payment'[q] # Absent =>
                    payment[q] # Absent \/ invoice[payment'[q].invoice] # Absent
    <2>1. /\ payment[p] # Absent /\ payment[p].status = "processing"
          /\ UNCHANGED <<order, call, invoice>>
      BY <1>4 DEF SettleAttempt
    <2>2. payment'[p].status = status /\ payment'[p].invoice = payment[p].invoice
      BY <1>2, <1>4 DEF BankPayment
    <2>3. payment'[p] # Absent
      BY <2>2 DEF Absent
    <2>4. QED BY <1>2, <1>4, <2>1, <2>2, <2>3 DEF Keeps, Exists
  <1>5. QED BY <1>3, <1>4 DEF Bank

\* What a step outside the API has to show.
LEMMA WorldStep ==
  ASSUME TypeOK, Consistent, Keeps, UNCHANGED <<order, call, invoice>>,
         \A p \in Payments : payment'[p] # Absent =>
           payment[p] # Absent \/ invoice[payment'[p].invoice] # Absent
  PROVE  Consistent'
  <1>1. (\A p \in Payments : payment[p] # Absent => invoice[payment[p].invoice] # Absent)'
    BY DEF Consistent, Keeps
  <1>2. (\A i \in Invoices : invoice[i] # Absent => Exists(invoice[i].order))'
    BY SameInvoices
  <1>3. (\A o \in Orders : Exists(o) /\ order[o].invoice # NoInvoice =>
           IssuedFor(order[o].invoice, o))'
    BY DEF Consistent, Exists, IssuedFor
  <1>4. (\A c \in Calls : CallConsistent(c))'
    BY CallStays DEF Consistent
  <1>5. QED BY <1>1, <1>2, <1>3, <1>4 DEF Consistent

\* A status request, a stopped request, the bank and the clock.
LEMMA OtherConsistent ==
  ASSUME TypeOK, TypeOK', Consistent,
         (\E c \in Calls : StatusRequest(c) \/ Abort(c)) \/ Bank \/ Tick
  PROVE  Consistent'
  <1>1. ASSUME NEW c \in Calls, NEW u \in Users, ReadSubscription(c, u)
        PROVE  Consistent'
    <2>1. UNCHANGED <<order, invoice, payment>>
      BY <1>1 DEF ReadSubscription
    <2>2. CASE UNCHANGED call
      BY <2>1, <2>2 DEF Consistent, CallConsistent, Exists, IssuedFor, AttemptFor, Approved
    <2>3. CASE Goto(c, [pc |-> "expire", user |-> u])
      <3>1. call'[c].pc = "expire" /\ OthersWait(c)
        BY <2>3, GotoCall
      <3>2. QED BY <2>1, <3>1, RestingCall, QuietStep
    <2>4. QED BY <1>1, <2>2, <2>3 DEF ReadSubscription
  <1>2. ASSUME NEW c \in Calls, ExpireSubscription(c) \/ Abort(c)
        PROVE  Consistent'
    BY <1>2, ReturnCall, QuietStep DEF ExpireSubscription, Abort
  <1>3. CASE Bank
    BY <1>3, BankKeeps, WorldStep
  <1>4. CASE Tick
    BY <1>4, WorldStep DEF Tick, Keeps, Exists
  <1>5. QED BY <1>1, <1>2, <1>3, <1>4 DEF StatusRequest

LEMMA InitConsistent == Init => Consistent
  BY DEF Init, Consistent, CallConsistent, Exists, Idle

LEMMA NextConsistent == TypeOK /\ Consistent /\ [Next]_vars => TypeOK' /\ Consistent'
  <1> SUFFICES ASSUME TypeOK, Consistent, [Next]_vars
               PROVE  TypeOK' /\ Consistent'
    OBVIOUS
  <1>1. TypeOK'
    BY NextTyped
  <1>2. CASE Next
    BY <1>1, <1>2, CheckoutConsistent, CallbackConsistent, PollConsistent, OtherConsistent
       DEF Next
  <1>3. CASE UNCHANGED vars
    <2>1. UNCHANGED <<order, call, invoice, payment>>
      BY <1>3 DEF vars
    <2>2. Keeps
      BY <2>1 DEF Keeps, Exists
    <2>3. \A p \in Payments : payment'[p] # Absent =>
            payment[p] # Absent \/ invoice[payment'[p].invoice] # Absent
      BY <2>1
    <2>4. QED BY <1>1, <2>1, <2>2, <2>3, WorldStep
  <1>4. QED BY <1>1, <1>2, <1>3

\* The rows and requests keep their types, and whatever a row or a request
\* refers to exists and belongs to its order, in every reachable state.
THEOREM TypeCorrect == Spec => [](TypeOK /\ Consistent)
  <1>1. Init => TypeOK /\ Consistent
    BY InitTyped, InitConsistent
  <1>2. QED BY <1>1, NextConsistent, PTL DEF Spec

\* What a row or a request in flight refers to exists and belongs to its order.
THEOREM RowsConsistent == Spec => []Consistent
  BY TypeCorrect, PTL

-----------------------------------------------------------------------------
(* What no interleaving of checkouts, callbacks, polls and status requests *)
(* does to an order or to an account, proved from the types and references *)
(* above.                                                                  *)

-----------------------------------------------------------------------------
(* How a row of subscription_payment_orders may change in one step. *)

Settles(o) ==
  /\ order'[o].status = "paid"
  /\ \E p \in Payments : order'[o].tx = p /\ Approved(p) /\ AttemptFor(p, o)
  /\ \E c \in Calls : Activate(c) /\ call[c].order = o

RowMoves(o) ==
  \/ order'[o] = order[o]
  \/ /\ ~Exists(o) /\ order'[o].status = "pending"
     /\ \E c \in Calls : InsertOrder(c, o)
  \/ /\ Exists(o) /\ order[o].status # "paid"
     /\ order'[o].user = order[o].user
     /\ order'[o].created = order[o].created
     /\ \/ order'[o].status = order[o].status
        \/ IsOpen(o) /\ order'[o].status \in {"processing", "canceled"}
        \/ IsOpen(o) /\ Settles(o)

OrdersMove == \A o \in Orders : RowMoves(o)

LEMMA OrdersRest == UNCHANGED order => OrdersMove
  BY DEF OrdersMove, RowMoves

LEMMA CheckoutMoves ==
  ASSUME TypeOK, NEW c \in Calls, Checkout(c)
  PROVE  OrdersMove
  <1>1. ASSUME NEW o \in Orders, InsertOrder(c, o)
        PROVE  OrdersMove
    <2>1. ~Exists(o) /\ order'[o].status = "pending"
      BY <1>1 DEF InsertOrder, TypeOK
    <2>2. \A x \in Orders : x # o => order'[x] = order[x]
      BY <1>1 DEF InsertOrder, TypeOK
    <2>3. QED BY <1>1, <2>1, <2>2 DEF OrdersMove, RowMoves
  <1>2. ASSUME SaveInvoice(c)
        PROVE  OrdersMove
    <2>1. PICK o \in Orders : o = call[c].order
      BY <1>2, CallShape DEF SaveInvoice
    <2>2. CASE ~IsOpen(o)
      BY <1>2, <2>1, <2>2, OrdersRest DEF SaveInvoice
    <2>3. CASE IsOpen(o)
      <3>1. order[o] \in OrderRow /\ Exists(o)
        BY <2>3, OpenExists, RowTyped
      <3>2. /\ order'[o].status = order[o].status
            /\ order'[o].user = order[o].user
            /\ order'[o].created = order[o].created
        BY <1>2, <2>1, <2>3, <3>1 DEF SaveInvoice, TypeOK, OrderRow
      <3>3. \A x \in Orders : x # o => order'[x] = order[x]
        BY <1>2, <2>1, <2>3 DEF SaveInvoice, TypeOK
      <3>4. order[o].status # "paid"
        BY <2>3 DEF IsOpen, Open
      <3>5. QED BY <3>1, <3>2, <3>3, <3>4 DEF OrdersMove, RowMoves
    <2>4. QED BY <2>2, <2>3
  <1>3. ASSUME UNCHANGED order
        PROVE  OrdersMove
    BY <1>3, OrdersRest
  <1>4. QED
    BY <1>1, <1>2, <1>3
       DEF Checkout, BeginReserve, ReserveByKey, ReserveOpen, ReserveNone, CreateInvoice

LEMMA CallbackMoves ==
  ASSUME TypeOK, Consistent, NEW c \in Calls, Callback(c)
  PROVE  OrdersMove
  <1>1. ASSUME ApplyStatus(c)
        PROVE  OrdersMove
    <2>1. PICK o \in Orders : o = call[c].order
      BY <1>1, CallShape DEF ApplyStatus
    <2>2. Exists(o) /\ order[o] \in OrderRow
      BY <1>1, <2>1, RowTyped DEF ApplyStatus, Consistent, CallConsistent
    <2>3. \A x \in Orders : x # o => order'[x] = order[x]
      BY <1>1, <2>1 DEF ApplyStatus, TypeOK
    <2>4. order'[o] = Recorded(o, call[c].result, call[c])
      BY <1>1, <2>1 DEF ApplyStatus, TypeOK
    <2>5. /\ order'[o].status = call[c].result
          /\ order'[o].user = order[o].user
          /\ order'[o].created = order[o].created
      BY <2>2, <2>4 DEF Recorded, OrderRow
    <2>6. call[c].result \in {"processing", "canceled"} /\ ~NothingToApply(o, call[c])
      BY <1>1, <2>1 DEF ApplyStatus
    <2>7. \/ IsOpen(o)
          \/ order[o].status = "canceled" /\ call[c].result = "canceled"
      BY <2>2, <2>6 DEF NothingToApply, IsOpen, OrderRow, OrderStatus
    <2>8. order[o].status # "paid"
      BY <2>6 DEF NothingToApply
    <2>9. QED BY <2>2, <2>3, <2>5, <2>6, <2>7, <2>8 DEF OrdersMove, RowMoves
  <1>2. ASSUME Activate(c)
        PROVE  OrdersMove
    <2>1. PICK o \in Orders : o = call[c].order
      BY <1>2, CallShape DEF Activate
    <2>2. PICK p \in Payments : p = call[c].tx
      BY <1>2, CallShape DEF Activate
    <2>3. IsOpen(o) /\ Exists(o) /\ order[o] \in OrderRow
      BY <1>2, <2>1, OpenExists, RowTyped DEF Activate
    <2>4. Approved(p) /\ AttemptFor(p, o)
      BY <1>2, <2>1, <2>2 DEF Activate, Consistent, CallConsistent
    <2>5. \A x \in Orders : x # o => order'[x] = order[x]
      BY <1>2, <2>1 DEF Activate, TypeOK
    <2>6. /\ order'[o].status = "paid" /\ order'[o].tx = p
          /\ order'[o].user = order[o].user
          /\ order'[o].created = order[o].created
      BY <1>2, <2>1, <2>2, <2>3 DEF Activate, TypeOK, OrderRow
    <2>7. order[o].status # "paid"
      BY <2>3 DEF IsOpen, Open
    <2>8. QED BY <1>2, <2>1, <2>3, <2>4, <2>5, <2>6, <2>7 DEF OrdersMove, RowMoves, Settles
  <1>3. ASSUME UNCHANGED order
        PROVE  OrdersMove
    BY <1>3, OrdersRest
  <1>4. QED
    BY <1>1, <1>2, <1>3 DEF Callback, ReceiveCallback, ApplyIgnored, ApplyApproved

LEMMA PollMoves ==
  ASSUME TypeOK, NEW c \in Calls, Poll(c)
  PROVE  OrdersMove
  <1>1. ASSUME UpdatePaymentStatus(c)
        PROVE  OrdersMove
    <2>1. PICK o \in Orders : o = call[c].order
      BY <1>1, CallShape DEF UpdatePaymentStatus
    <2>2. CASE ~IsOpen(o)
      BY <1>1, <2>1, <2>2, OrdersRest DEF UpdatePaymentStatus
    <2>3. CASE IsOpen(o)
      <3>1. order[o] \in OrderRow /\ Exists(o)
        BY <2>3, OpenExists, RowTyped
      <3>2. call[c].status \in {"processing", "canceled"}
        BY <1>1, CallShape DEF UpdatePaymentStatus
      <3>3. /\ order'[o].status = call[c].status
            /\ order'[o].user = order[o].user
            /\ order'[o].created = order[o].created
        BY <1>1, <2>1, <2>3, <3>1 DEF UpdatePaymentStatus, TypeOK, OrderRow
      <3>4. \A x \in Orders : x # o => order'[x] = order[x]
        BY <1>1, <2>1, <2>3 DEF UpdatePaymentStatus, TypeOK
      <3>5. order[o].status # "paid"
        BY <2>3 DEF IsOpen, Open
      <3>6. QED BY <2>3, <3>1, <3>2, <3>3, <3>4, <3>5 DEF OrdersMove, RowMoves
    <2>4. QED BY <2>2, <2>3
  <1>2. ASSUME UNCHANGED order
        PROVE  OrdersMove
    BY <1>2, OrdersRest
  <1>3. QED BY <1>1, <1>2 DEF Poll, ClaimStatusCheck, PollApproved, PollStatus

\* Every step moves the orders this way,
LEMMA NextMoves ==
  ASSUME TypeOK, Consistent, [Next]_vars
  PROVE  OrdersMove
  <1>1. ASSUME UNCHANGED order
        PROVE  OrdersMove
    BY <1>1, OrdersRest
  <1>2. CASE \E c \in Calls : Checkout(c) \/ Callback(c) \/ Poll(c)
    BY <1>2, CheckoutMoves, CallbackMoves, PollMoves
  <1>3. CASE \E c \in Calls : StatusRequest(c) \/ Abort(c)
    BY <1>1, <1>3 DEF StatusRequest, ReadSubscription, ExpireSubscription, Abort
  <1>4. CASE Bank \/ Tick
    BY <1>1, <1>4 DEF Bank, PayInvoice, SettleAttempt, Tick
  <1>5. CASE UNCHANGED vars
    BY <1>1, <1>5 DEF vars
  <1>6. QED BY <1>2, <1>3, <1>4, <1>5 DEF Next

\* and forgets no invoice and no approval.
LEMMA NextKeeps ==
  ASSUME TypeOK, Consistent, [Next]_vars
  PROVE  Keeps
  <1>1. ASSUME NEW o \in Orders, Exists(o)
        PROVE  Exists(o)'
    <2>1. RowMoves(o)
      BY NextMoves DEF OrdersMove
    <2>2. order[o] \in OrderRow
      BY <1>1, RowTyped
    <2>3. order'[o] = order[o] \/ order'[o].status \in OrderStatus
      BY <1>1, <2>1, <2>2 DEF RowMoves, Settles, OrderRow, OrderStatus, Open
    <2>4. QED BY <1>1, <2>3 DEF Exists, Absent, OrderStatus, Open
  <1>2. ASSUME UNCHANGED <<invoice, payment>>
        PROVE  Keeps
    BY <1>1, <1>2 DEF Keeps
  <1>3. ASSUME NEW c \in Calls, Checkout(c)
        PROVE  Keeps
    <2>1. ASSUME NEW i \in Invoices, NEW link \in BOOLEAN, CreateInvoice(c, i, link)
          PROVE  Keeps
      <3>1. \A x \in Invoices : invoice[x] # Absent => invoice'[x] = invoice[x]
        BY <2>1 DEF CreateInvoice, TypeOK
      <3>2. UNCHANGED payment
        BY <2>1 DEF CreateInvoice
      <3>3. QED BY <1>1, <3>1, <3>2 DEF Keeps
    <2>2. QED
      BY <1>2, <1>3, <2>1
         DEF Checkout, BeginReserve, ReserveByKey, ReserveOpen, ReserveNone,
             InsertOrder, SaveInvoice
  <1>4. ASSUME NEW c \in Calls, Callback(c)
        PROVE  Keeps
    BY <1>2, <1>4 DEF Callback, ReceiveCallback, ApplyIgnored, ApplyStatus,
                      ApplyApproved, Activate
  <1>5. ASSUME NEW c \in Calls, Poll(c)
        PROVE  Keeps
    BY <1>2, <1>5 DEF Poll, ClaimStatusCheck, PollApproved, PollStatus, UpdatePaymentStatus
  <1>6. ASSUME NEW c \in Calls, StatusRequest(c) \/ Abort(c)
        PROVE  Keeps
    BY <1>2, <1>6 DEF StatusRequest, ReadSubscription, ExpireSubscription, Abort
  <1>7. CASE Bank
    BY <1>7, BankKeeps
  <1>8. CASE Tick \/ UNCHANGED vars
    BY <1>2, <1>8 DEF Tick, vars
  <1>9. QED BY <1>3, <1>4, <1>5, <1>6, <1>7, <1>8 DEF Next

-----------------------------------------------------------------------------
(* Orders. *)

\* A paid order has an approved attempt of its own: the row only becomes
\* paid in a step that has one at hand, and neither the attempt nor the
\* paid row changes afterwards.
LEMMA PaidStep ==
  ASSUME TypeOK, Consistent, PaidMeansApproved, [Next]_vars
  PROVE  PaidMeansApproved'
  <1> SUFFICES ASSUME NEW o \in Orders, order'[o].status = "paid"
               PROVE  /\ order'[o].tx \in Payments
                      /\ Approved(order[o].tx)'
                      /\ AttemptFor(order[o].tx, o)'
    BY DEF PaidMeansApproved
  <1>1. PICK p \in Payments : order'[o].tx = p /\ Approved(p) /\ AttemptFor(p, o)
    <2>1. CASE order'[o] = order[o]
      BY <2>1 DEF PaidMeansApproved
    <2>2. CASE order'[o] # order[o]
      BY <2>2, NextMoves DEF OrdersMove, RowMoves, Settles, IsOpen, Open
    <2>3. QED BY <2>1, <2>2
  <1>2. Keeps
    BY NextKeeps
  <1>3. Approved(p)' /\ AttemptFor(p, o)'
    BY <1>1, <1>2, StillApproved, StillAttempt
  <1>4. QED BY <1>1, <1>3 DEF Approved, AttemptFor, IssuedFor

\* An order is paid only on an attempt the bank approved for an invoice of
\* that very order.
THEOREM PaidIsApproved == Spec => []PaidMeansApproved
  <1>1. Init => PaidMeansApproved
    BY DEF Init, PaidMeansApproved, Absent
  <1>2. TypeOK /\ Consistent /\ PaidMeansApproved /\ [Next]_vars => PaidMeansApproved'
    BY PaidStep
  <1>3. QED BY <1>1, <1>2, TypeCorrect, PTL DEF Spec

\* No late callback, stale poll or late saveOBankInvoice changes a paid order; a
\* canceled order is never payable again and no order goes back to pending.
THEOREM OrdersAdvance == Spec => OrdersOnlyAdvance
  <1>1. TypeOK /\ Consistent /\ [Next]_vars =>
          [\A o \in Orders :
             /\ order[o].status = "paid" => order'[o] = order[o]
             /\ Exists(o) /\ order'[o].status # order[o].status =>
                  order[o].status \in Open /\ order'[o].status # "pending"]_vars
    <2> SUFFICES ASSUME TypeOK, Consistent, [Next]_vars, NEW o \in Orders
                 PROVE  /\ order[o].status = "paid" => order'[o] = order[o]
                        /\ Exists(o) /\ order'[o].status # order[o].status =>
                             order[o].status \in Open /\ order'[o].status # "pending"
      OBVIOUS
    <2>1. RowMoves(o)
      BY NextMoves DEF OrdersMove
    <2>2. order[o].status = "paid" => Exists(o) /\ ~IsOpen(o)
      BY DEF Exists, Absent, IsOpen, Open
    <2>3. ASSUME order[o].status = "paid"
          PROVE  order'[o] = order[o]
      BY <2>1, <2>2, <2>3 DEF RowMoves
    <2>4. ASSUME Exists(o), order'[o].status # order[o].status
          PROVE  order[o].status \in Open /\ order'[o].status # "pending"
      <3>1. IsOpen(o)
        BY <2>1, <2>4 DEF RowMoves
      <3>2. order'[o].status \in {"processing", "canceled"} \/ Settles(o)
        BY <2>1, <2>4 DEF RowMoves
      <3>3. QED BY <3>1, <3>2 DEF Settles, IsOpen
    <2>5. QED BY <2>3, <2>4
  <1>2. QED BY <1>1, TypeCorrect, PTL DEF Spec, OrdersOnlyAdvance

-----------------------------------------------------------------------------
(* One open order per account.  The reservation is serialised by the       *)
(* subscription row, so what it read about open orders is still true when  *)
(* it inserts one.                                                         *)

Reserving(c) == call[c].pc \in {"reserve", "insert"}

Serialised ==
  \A c, d \in Calls :
    Reserving(c) /\ Reserving(d) /\ call[c].user = call[d].user => c = d

InsertsIntoNone ==
  \A c \in Calls : call[c].pc = "insert" => FreshOpen(call[c].user) = {}

OneOpenInv == Serialised /\ InsertsIntoNone /\ OneOpenOrder

\* How a step moves a request into and along its reservation.
ReservationMoves(c) ==
  /\ OthersWait(c)
  /\ \/ call'[c].pc \notin {"reserve", "insert"}
     \/ /\ call'[c].pc = "reserve"
        /\ \E u \in Users : call'[c].user = u /\ ~SubLocked(u)
     \/ /\ call[c].pc = "reserve"
        /\ call'[c].pc = "insert"
        /\ call'[c].user = call[c].user
        /\ FreshOpen(call[c].user) = {}
        /\ UNCHANGED <<now, order>>

LEMMA GotoElsewhere ==
  ASSUME TypeOK, NEW c \in Calls, NEW state, Goto(c, state),
         state.pc \notin {"reserve", "insert"}
  PROVE  ReservationMoves(c)
  BY GotoCall DEF ReservationMoves

LEMMA ReturnElsewhere ==
  ASSUME TypeOK, NEW c \in Calls, Return(c)
  PROVE  ReservationMoves(c)
  BY GotoElsewhere DEF Return, Idle

LEMMA CheckoutReserves ==
  ASSUME TypeOK, NEW c \in Calls, Checkout(c)
  PROVE  ReservationMoves(c)
  <1>1. ASSUME NEW u \in Users, NEW k \in Keys, NEW f \in Offers, BeginReserve(c, u, k, f)
        PROVE  ReservationMoves(c)
    <2>1. /\ call'[c] = [pc |-> "reserve", user |-> u, key |-> k, offer |-> f]
          /\ OthersWait(c)
      BY <1>1, GotoCall DEF BeginReserve
    <2>2. ~SubLocked(u)
      BY <1>1 DEF BeginReserve
    <2>3. QED BY <2>1, <2>2 DEF ReservationMoves
  <1>2. ASSUME NEW o \in Orders, ReserveByKey(c, o) \/ ReserveOpen(c, o)
        PROVE  ReservationMoves(c)
    <2>1. Return(c) \/ Goto(c, [pc |-> "invoice", order |-> o])
      BY <1>2 DEF ReserveByKey, ReserveOpen, Refuse, AnswerWith
    <2>2. QED BY <2>1, GotoElsewhere, ReturnElsewhere
  <1>3. ASSUME ReserveNone(c)
        PROVE  ReservationMoves(c)
    <2>1. /\ call'[c] = [call[c] EXCEPT !.pc = "insert"]
          /\ OthersWait(c)
      BY <1>3, GotoCall DEF ReserveNone
    <2>2. /\ call[c].pc = "reserve" /\ FreshOpen(call[c].user) = {}
          /\ UNCHANGED <<now, order>>
      BY <1>3 DEF ReserveNone
    <2>3. call'[c].pc = "insert" /\ call'[c].user = call[c].user
      BY <2>1, <2>2, CallShape
    <2>4. QED BY <2>1, <2>2, <2>3 DEF ReservationMoves
  <1>4. ASSUME NEW o \in Orders, InsertOrder(c, o)
        PROVE  ReservationMoves(c)
    BY <1>4, GotoElsewhere DEF InsertOrder
  <1>5. ASSUME NEW i \in Invoices, NEW link \in BOOLEAN, CreateInvoice(c, i, link)
        PROVE  ReservationMoves(c)
    BY <1>5, GotoElsewhere DEF CreateInvoice
  <1>6. ASSUME SaveInvoice(c)
        PROVE  ReservationMoves(c)
    BY <1>6, ReturnElsewhere DEF SaveInvoice
  <1>7. QED BY <1>1, <1>2, <1>3, <1>4, <1>5, <1>6 DEF Checkout

LEMMA NextReserves ==
  ASSUME TypeOK, [Next]_vars
  PROVE  UNCHANGED call \/ \E c \in Calls : ReservationMoves(c)
  <1>1. ASSUME NEW c \in Calls, Callback(c)
        PROVE  ReservationMoves(c)
    <2>1. ASSUME NEW p \in Payments, NEW i \in Invoices \cup {NoInvoice},
                 NEW result \in {"processing", "canceled", "approved"},
                 ReceiveCallback(c, p, result, i)
          PROVE  ReservationMoves(c)
      BY <2>1, GotoElsewhere DEF ReceiveCallback
    <2>2. ASSUME ApplyIgnored(c) \/ ApplyStatus(c) \/ Activate(c)
          PROVE  ReservationMoves(c)
      BY <2>2, ReturnElsewhere DEF ApplyIgnored, ApplyStatus, Activate
    <2>3. ASSUME ApplyApproved(c)
          PROVE  ReservationMoves(c)
      BY <2>3, GotoElsewhere DEF ApplyApproved
    <2>4. QED BY <1>1, <2>1, <2>2, <2>3 DEF Callback
  <1>2. ASSUME NEW c \in Calls, Poll(c)
        PROVE  ReservationMoves(c)
    <2>1. ASSUME NEW o \in Orders, ClaimStatusCheck(c, o)
          PROVE  ReservationMoves(c)
      BY <2>1, GotoElsewhere DEF ClaimStatusCheck
    <2>2. ASSUME NEW p \in Payments, PollApproved(c, p)
          PROVE  ReservationMoves(c)
      BY <2>2, GotoElsewhere DEF PollApproved
    <2>3. ASSUME NEW status \in {"processing", "canceled"}, PollStatus(c, status)
          PROVE  ReservationMoves(c)
      BY <2>3, GotoElsewhere DEF PollStatus
    <2>4. ASSUME UpdatePaymentStatus(c)
          PROVE  ReservationMoves(c)
      BY <2>4, ReturnElsewhere DEF UpdatePaymentStatus
    <2>5. QED BY <1>2, <2>1, <2>2, <2>3, <2>4 DEF Poll
  <1>3. ASSUME NEW c \in Calls, StatusRequest(c) \/ Abort(c)
        PROVE  UNCHANGED call \/ ReservationMoves(c)
    <2>1. ASSUME NEW u \in Users, ReadSubscription(c, u)
          PROVE  UNCHANGED call \/ ReservationMoves(c)
      BY <2>1, GotoElsewhere DEF ReadSubscription
    <2>2. ASSUME ExpireSubscription(c) \/ Abort(c)
          PROVE  ReservationMoves(c)
      BY <2>2, ReturnElsewhere DEF ExpireSubscription, Abort
    <2>3. QED BY <1>3, <2>1, <2>2 DEF StatusRequest
  <1>4. CASE Bank \/ Tick \/ UNCHANGED vars
    BY <1>4 DEF Bank, PayInvoice, SettleAttempt, Tick, vars
  <1>5. QED BY <1>1, <1>2, <1>3, <1>4, CheckoutReserves DEF Next

\* The clock only runs forward.
LEMMA NowGrows ==
  ASSUME TypeOK, [Next]_vars
  PROVE  now' \in Nat /\ now <= now'
  <1>1. ASSUME UNCHANGED now
        PROVE  now' \in Nat /\ now <= now'
    BY <1>1 DEF TypeOK
  <1>2. CASE Tick
    BY <1>2 DEF Tick, TypeOK
  <1>3. CASE \E c \in Calls : Checkout(c)
    BY <1>1, <1>3 DEF Checkout, BeginReserve, ReserveByKey, ReserveOpen, ReserveNone,
                      InsertOrder, CreateInvoice, SaveInvoice
  <1>4. CASE \E c \in Calls : Callback(c)
    BY <1>1, <1>4 DEF Callback, ReceiveCallback, ApplyIgnored, ApplyStatus,
                      ApplyApproved, Activate
  <1>5. CASE \E c \in Calls : Poll(c)
    BY <1>1, <1>5 DEF Poll, ClaimStatusCheck, PollApproved, PollStatus, UpdatePaymentStatus
  <1>6. CASE \E c \in Calls : StatusRequest(c) \/ Abort(c)
    BY <1>1, <1>6 DEF StatusRequest, ReadSubscription, ExpireSubscription, Abort
  <1>7. CASE Bank \/ UNCHANGED vars
    BY <1>1, <1>7 DEF Bank, PayInvoice, SettleAttempt, vars
  <1>8. QED BY <1>2, <1>3, <1>4, <1>5, <1>6, <1>7 DEF Next

\* An order that can be paid after a step could be paid before it, or was
\* inserted by it.
LEMMA FreshBefore ==
  ASSUME TypeOK, Consistent, [Next]_vars,
         NEW u \in Users, NEW o \in Orders, o \in FreshOpen(u)'
  PROVE  \/ o \in FreshOpen(u)
         \/ \E c \in Calls : InsertOrder(c, o) /\ call[c].user = u
  <1>1. /\ order'[o] # Absent /\ order'[o].user = u
        /\ order'[o].status \in Open
        /\ now' < order'[o].created + OrderLife
    BY DEF FreshOpen, Exists, IsOpen
  <1>2. RowMoves(o)
    BY NextMoves DEF OrdersMove
  <1>3. CASE Exists(o)
    <2>1. order[o] \in OrderRow
      BY <1>3, RowTyped
    <2>2. /\ order[o].user = u /\ order[o].status \in Open
          /\ order'[o].created = order[o].created
      BY <1>1, <1>2, <1>3, <2>1 DEF RowMoves, Settles, IsOpen, Open
    <2>3. now < order[o].created + OrderLife
      BY <1>1, <2>1, <2>2, NowGrows, BillingAssumption DEF TypeOK, OrderRow
    <2>4. QED BY <1>3, <2>2, <2>3 DEF FreshOpen, IsOpen
  <1>4. CASE ~Exists(o)
    <2>1. PICK c \in Calls : InsertOrder(c, o)
      BY <1>1, <1>2, <1>4 DEF RowMoves, Exists
    <2>2. call[c].user = u
      BY <1>1, <2>1 DEF InsertOrder, TypeOK
    <2>3. QED BY <2>1, <2>2
  <1>5. QED BY <1>3, <1>4

\* The row lock on the subscription serialises reservations.
LEMMA SerialisedStep ==
  ASSUME TypeOK, [Next]_vars, Serialised
  PROVE  Serialised'
  <1>1. CASE UNCHANGED call
    BY <1>1 DEF Serialised, Reserving
  <1>2. ASSUME NEW c \in Calls, ReservationMoves(c)
        PROVE  Serialised'
    <2> SUFFICES ASSUME NEW d \in Calls, NEW e \in Calls, Reserving(d)', Reserving(e)',
                        call'[d].user = call'[e].user, d # e
                 PROVE  FALSE
      BY DEF Serialised
    <2>1. \A x \in Calls : x # c => call'[x] = call[x]
      BY <1>2 DEF ReservationMoves, OthersWait
    <2>2. PICK x \in Calls, y \in Calls : /\ x # y /\ y # c
                                          /\ Reserving(x)' /\ Reserving(y)'
                                          /\ call'[x].user = call'[y].user
      OBVIOUS
    <2>3. Reserving(y) /\ call'[y].user = call[y].user
      BY <2>1, <2>2 DEF Reserving
    <2>4. CASE x # c
      BY <2>1, <2>2, <2>3, <2>4 DEF Serialised, Reserving
    <2>5. CASE x = c /\ call'[c].pc = "reserve" /\ ~SubLocked(call'[c].user)
      BY <2>2, <2>3, <2>5 DEF SubLocked, Reserving
    <2>6. CASE x = c /\ call[c].pc = "reserve" /\ call'[c].user = call[c].user
      BY <2>2, <2>3, <2>6 DEF Serialised, Reserving
    <2>7. QED BY <1>2, <2>2, <2>4, <2>5, <2>6 DEF ReservationMoves, Reserving
  <1>3. QED BY <1>1, <1>2, NextReserves

\* What a reservation read about open orders stays true until it inserts.
LEMMA InsertsIntoNoneStep ==
  ASSUME TypeOK, Consistent, [Next]_vars, Serialised, InsertsIntoNone
  PROVE  InsertsIntoNone'
  <1> SUFFICES ASSUME NEW c \in Calls, call'[c].pc = "insert",
                      NEW o \in Orders, o \in FreshOpen(call[c].user)'
               PROVE  FALSE
    BY DEF InsertsIntoNone, FreshOpen
  <1>1. PICK u \in Users : u = call'[c].user
    BY NextTyped, CallShape DEF TypeOK, CallState, Idle
  <1>2. CASE call'[c] = call[c]
    <2>1. FreshOpen(u) = {} /\ Reserving(c)
      BY <1>1, <1>2 DEF InsertsIntoNone, Reserving
    <2>2. o \in FreshOpen(u)'
      BY <1>1 DEF FreshOpen
    <2>3. PICK d \in Calls : InsertOrder(d, o) /\ call[d].user = u
      BY <2>1, <2>2, FreshBefore
    <2>4. d = c
      BY <1>1, <1>2, <2>1, <2>3 DEF Serialised, Reserving, InsertOrder
    <2>5. call'[d].pc = "invoice"
      BY <2>3, GotoCall DEF InsertOrder
    <2>6. QED BY <2>4, <2>5
  <1>3. CASE call'[c] # call[c]
    <2>1. ReservationMoves(c)
      BY <1>3, NextReserves DEF ReservationMoves, OthersWait
    <2>2. /\ call'[c].user = call[c].user /\ FreshOpen(call[c].user) = {}
          /\ UNCHANGED <<now, order>>
      BY <2>1 DEF ReservationMoves
    <2>3. QED BY <2>2 DEF FreshOpen, Exists, IsOpen
  <1>4. QED BY <1>2, <1>3

LEMMA OneOpenOrderStep ==
  ASSUME TypeOK, Consistent, [Next]_vars, OneOpenInv
  PROVE  OneOpenOrder'
  <1> SUFFICES ASSUME NEW u \in Users, NEW x \in FreshOpen(u)', NEW y \in FreshOpen(u)',
                      x # y
               PROVE  FALSE
    BY DEF OneOpenOrder
  <1>1. x \in Orders /\ y \in Orders
    BY DEF FreshOpen
  <1>2. ASSUME NEW a \in Orders, NEW b \in Orders, a # b, b \in FreshOpen(u)',
               NEW c \in Calls, InsertOrder(c, a), call[c].user = u
        PROVE  FALSE
    <2>1. FreshOpen(u) = {}
      BY <1>2 DEF OneOpenInv, InsertsIntoNone, InsertOrder
    <2>2. PICK d \in Calls : InsertOrder(d, b) /\ call[d].user = u
      BY <1>2, <2>1, FreshBefore
    <2>3. order[b] = Absent /\ order'[b] = order[b]
      BY <1>2, <2>2 DEF InsertOrder, Exists, TypeOK
    <2>4. QED BY <1>2, <2>3 DEF FreshOpen, Exists
  <1>3. QED BY <1>1, <1>2, FreshBefore DEF OneOpenInv, OneOpenOrder

\* An account never has two orders that can still be paid.
THEOREM AtMostOneOpenOrder == Spec => []OneOpenOrder
  <1>1. Init => OneOpenInv
    BY DEF Init, OneOpenInv, Serialised, InsertsIntoNone, OneOpenOrder, FreshOpen,
           Exists, Reserving, Idle
  <1>2. TypeOK /\ Consistent /\ OneOpenInv /\ [Next]_vars => OneOpenInv'
    BY SerialisedStep, InsertsIntoNoneStep, OneOpenOrderStep DEF OneOpenInv
  <1>3. OneOpenInv => OneOpenOrder
    BY DEF OneOpenInv
  <1>4. QED BY <1>1, <1>2, <1>3, TypeCorrect, PTL DEF Spec

-----------------------------------------------------------------------------
(***************************************************************************)
(* The billing subsystem implements PaymentLedger: every step of every     *)
(* request settles one order exactly once, lapses one account, lets time   *)
(* pass, or is invisible there.                                            *)
(***************************************************************************)

\* A step whose only effect on accounts is to insert one or to expire one.
Relaxes(u) ==
  /\ \E s \in SubRow : /\ sub' = [sub EXCEPT ![u] = s]
                       /\ s.plan = sub[u].plan /\ s.end = sub[u].end
                       /\ s.status = "active" => sub[u].status = "active"
  /\ UNCHANGED now

SubRests == UNCHANGED <<sub, now>> \/ \E u \in Users : Relaxes(u)

LEMMA EnsuredRelaxes ==
  ASSUME NEW s \in SubRow
  PROVE  /\ Inserted(s).plan = s.plan /\ Inserted(s).end = s.end
         /\ Inserted(s).status = "active" <=> s.status = "active"
         /\ Ensured(s).plan = s.plan /\ Ensured(s).end = s.end
         /\ Ensured(s).status = "active" <=> s.status = "active" /\ ~(s.end <= now)
  BY DEF SubRow, Inserted, Ensured, Lapsed

LEMMA CommitRelaxes ==
  ASSUME TypeOK, NEW u \in Users, CommitEnsured(u), UNCHANGED now
  PROVE  Relaxes(u)
  BY EnsuredTyped, EnsuredRelaxes DEF CommitEnsured, Relaxes, TypeOK

LEMMA CheckoutRelaxes ==
  ASSUME TypeOK, NEW c \in Calls, Checkout(c)
  PROVE  SubRests
  <1>1. ASSUME NEW o \in Orders, ReserveByKey(c, o) \/ ReserveOpen(c, o) \/ InsertOrder(c, o)
        PROVE  SubRests
    <2>1. call[c].user \in Users
      BY <1>1, CallShape DEF ReserveByKey, ReserveOpen, InsertOrder
    <2>2. UNCHANGED now /\ (UNCHANGED sub \/ CommitEnsured(call[c].user))
      BY <1>1 DEF ReserveByKey, ReserveOpen, InsertOrder, Refuse
    <2>3. QED BY <2>1, <2>2, CommitRelaxes DEF SubRests
  <1>2. QED
    BY <1>1 DEF Checkout, BeginReserve, ReserveNone, CreateInvoice, SaveInvoice, SubRests

LEMMA StatusRelaxes ==
  ASSUME TypeOK, NEW c \in Calls, StatusRequest(c)
  PROVE  SubRests
  <1>1. ASSUME NEW u \in Users, ReadSubscription(c, u)
        PROVE  SubRests
    <2>1. sub' = [sub EXCEPT ![u] = Inserted(sub[u])] /\ UNCHANGED now
      BY <1>1 DEF ReadSubscription
    <2>2. sub[u] \in SubRow
      BY DEF TypeOK
    <2>3. PICK s \in SubRow : s = Inserted(sub[u])
      BY <2>2, EnsuredTyped
    <2>4. /\ s.plan = sub[u].plan /\ s.end = sub[u].end
          /\ s.status = "active" => sub[u].status = "active"
      BY <2>2, <2>3, EnsuredRelaxes
    <2>5. Relaxes(u)
      BY <2>1, <2>3, <2>4 DEF Relaxes
    <2>6. QED BY <2>5 DEF SubRests
  <1>2. ASSUME ExpireSubscription(c)
        PROVE  SubRests
    <2>1. PICK u \in Users : u = call[c].user
      BY <1>2, CallShape DEF ExpireSubscription
    <2>2. sub[u] \in SubRow
      BY DEF TypeOK
    <2>3. PICK s \in SubRow : s = [sub[u] EXCEPT !.status = "expired"]
      BY <2>2 DEF SubRow
    <2>4. sub' = [sub EXCEPT ![u] = s] /\ UNCHANGED now
      BY <1>2, <2>1, <2>3 DEF ExpireSubscription
    <2>5. s.plan = sub[u].plan /\ s.end = sub[u].end /\ s.status = "expired"
      BY <2>2, <2>3 DEF SubRow
    <2>6. Relaxes(u)
      BY <2>4, <2>5 DEF Relaxes
    <2>7. QED BY <2>6 DEF SubRests
  <1>3. QED BY <1>1, <1>2 DEF StatusRequest

LEMMA NextRelaxes ==
  ASSUME TypeOK, [Next]_vars
  PROVE  \/ SubRests
         \/ \E c \in Calls : Activate(c)
         \/ Tick
  <1>1. ASSUME NEW c \in Calls, Callback(c)
        PROVE  SubRests \/ Activate(c)
    BY <1>1 DEF Callback, ReceiveCallback, ApplyIgnored, ApplyStatus, ApplyApproved, SubRests
  <1>2. ASSUME NEW c \in Calls, Poll(c) \/ Abort(c)
        PROVE  SubRests
    BY <1>2 DEF Poll, ClaimStatusCheck, PollApproved, PollStatus, UpdatePaymentStatus,
                Abort, SubRests
  <1>3. CASE Bank \/ UNCHANGED vars
    BY <1>3 DEF Bank, PayInvoice, SettleAttempt, vars, SubRests
  <1>4. QED BY <1>1, <1>2, <1>3, CheckoutRelaxes, StatusRelaxes DEF Next

-----------------------------------------------------------------------------
(* Mapping a step. *)

settledOrders == {o \in Orders : order[o].status = "paid"}

\* Only an activation settles an order.
LEMMA SettledRests ==
  ASSUME TypeOK, Consistent, [Next]_vars, \A c \in Calls : ~Activate(c)
  PROVE  UNCHANGED settledOrders
  <1> SUFFICES ASSUME NEW o \in Orders
               PROVE  order'[o].status = "paid" <=> order[o].status = "paid"
    BY DEF settledOrders
  <1>1. RowMoves(o)
    BY NextMoves DEF OrdersMove
  <1>2. order[o].status = "paid" => Exists(o)
    BY DEF Exists, Absent
  <1>3. QED BY <1>1, <1>2 DEF RowMoves, Settles

LEMMA RestsMapped ==
  ASSUME TypeOK, SubRests, UNCHANGED settledOrders
  PROVE  [Ledger!Next]_(Ledger!vars)
  <1>1. CASE UNCHANGED <<sub, now>>
    BY <1>1 DEF Ledger!vars, settledOrders
  <1>2. ASSUME NEW u \in Users, Relaxes(u)
        PROVE  [Ledger!Next]_(Ledger!vars)
    <2>1. PICK s \in SubRow : /\ sub' = [sub EXCEPT ![u] = s]
                              /\ s.plan = sub[u].plan /\ s.end = sub[u].end
                              /\ s.status = "active" => sub[u].status = "active"
      BY <1>2 DEF Relaxes
    <2>2. /\ sub'[u] = s
          /\ \A v \in Users : v # u => sub'[v] = sub[v]
      BY <2>1 DEF TypeOK
    <2>3. /\ [v \in Users |-> sub'[v].plan] = [v \in Users |-> sub[v].plan]
          /\ [v \in Users |-> sub'[v].end] = [v \in Users |-> sub[v].end]
      BY <2>1, <2>2
    <2>4. CASE s.status = "active" \/ sub[u].status # "active"
      <3>1. [v \in Users |-> sub'[v].status = "active"]
              = [v \in Users |-> sub[v].status = "active"]
        BY <2>1, <2>2, <2>4
      <3>2. QED BY <1>2, <2>3, <3>1 DEF Relaxes, Ledger!vars, settledOrders
    <2>5. CASE s.status # "active" /\ sub[u].status = "active"
      <3>1. [v \in Users |-> sub'[v].status = "active"]
              = [[v \in Users |-> sub[v].status = "active"] EXCEPT ![u] = FALSE]
        BY <2>2, <2>5
      <3>2. Ledger!Lapse(u)
        BY <1>2, <2>3, <2>5, <3>1 DEF Relaxes, Ledger!Lapse, settledOrders
      <3>3. QED BY <3>2 DEF Ledger!Next
    <2>6. QED BY <2>4, <2>5
  <1>3. QED BY <1>1, <1>2 DEF SubRests

\* An activation buys its offer's length on top of what is left.
LEMMA ActivateMapped ==
  ASSUME TypeOK, NEW c \in Calls, Activate(c)
  PROVE  Ledger!Next
  <1>1. PICK o \in Orders : o = call[c].order
    BY CallShape DEF Activate
  <1>2. IsOpen(o) /\ order[o] \in OrderRow
    BY <1>1, OpenExists, RowTyped DEF Activate
  <1>3. PICK u \in Users : u = order[o].user
    BY <1>2 DEF OrderRow
  <1>4. PICK f \in Offers : f = order[o].offer
    BY <1>2 DEF OrderRow
  <1>5. /\ order'[o].status = "paid"
        /\ \A x \in Orders : x # o => order'[x] = order[x]
    BY <1>1, <1>2 DEF Activate, TypeOK, OrderRow
  <1>6. sub' = [sub EXCEPT ![u] = [status |-> "active", plan |-> f,
                                   end |-> PeriodStart(Ensured(sub[u])) + PeriodLen[f]]]
    BY <1>1, <1>3, <1>4 DEF Activate
  <1>7. UNCHANGED now
    BY DEF Activate
  <1>8. sub[u] \in SubRow
    BY DEF TypeOK
  <1>9. PeriodStart(Ensured(sub[u])) =
          IF sub[u].status = "active" /\ now < sub[u].end THEN sub[u].end ELSE now
    <2>1. sub[u].end \in Nat /\ now \in Nat
      BY <1>8 DEF SubRow, TypeOK
    <2>2. ~(sub[u].end <= now) <=> now < sub[u].end
      BY <2>1
    <2>3. /\ Ensured(sub[u]).end = sub[u].end
          /\ Ensured(sub[u]).status = "active" <=>
               sub[u].status = "active" /\ now < sub[u].end
      BY <1>8, <2>2, EnsuredRelaxes
    <2>4. QED BY <2>3 DEF PeriodStart
  <1>10. o \notin settledOrders /\ settledOrders' = settledOrders \cup {o}
    BY <1>2, <1>5 DEF settledOrders, IsOpen, Open
  <1>11. [v \in Users |-> sub'[v].status = "active"]
           = [[v \in Users |-> sub[v].status = "active"] EXCEPT ![u] = TRUE]
    BY <1>6 DEF TypeOK
  <1>12. [v \in Users |-> sub'[v].plan] = [[v \in Users |-> sub[v].plan] EXCEPT ![u] = f]
    BY <1>6 DEF TypeOK
  <1>13. [v \in Users |-> sub'[v].end]
           = [[v \in Users |-> sub[v].end] EXCEPT ![u] = Ledger!From(u) + PeriodLen[f]]
    BY <1>6, <1>9 DEF TypeOK, Ledger!From
  <1>14. Ledger!Settle(u, o, f)
    BY <1>7, <1>10, <1>11, <1>12, <1>13 DEF Ledger!Settle, settledOrders
  <1>15. QED BY <1>14 DEF Ledger!Next

\* Every behaviour of the billing subsystem is one of the ledger.
THEOREM BillingImplementsLedger == Spec => LedgerSpec
  <1>1. Init => Ledger!Init
    <2> SUFFICES ASSUME Init
                 PROVE  Ledger!Init
      OBVIOUS
    <2>1. {o \in Orders : order[o].status = "paid"} = {}
      BY DEF Init, Absent
    <2>2. \A u \in Users : sub[u] = NoSub
      BY DEF Init
    <2>3. [u \in Users |-> sub[u].status = "active"] = [u \in Users |-> FALSE]
      <3>1. NoSub.status = "none"
        BY DEF NoSub
      <3>2. \A u \in Users : (sub[u].status = "active") = FALSE
        BY <2>2, <3>1
      <3>3. QED BY <3>2, Zenon
    <2>4. /\ [u \in Users |-> sub[u].plan] = [u \in Users |-> NoOffer]
          /\ [u \in Users |-> sub[u].end] = [u \in Users |-> 0]
      BY <2>2 DEF NoSub
    <2>5. QED BY <2>1, <2>3, <2>4 DEF Init, Ledger!Init
  <1>2. TypeOK /\ Consistent /\ [Next]_vars => [Ledger!Next]_(Ledger!vars)
    <2> SUFFICES ASSUME TypeOK, Consistent, [Next]_vars
                 PROVE  [Ledger!Next]_(Ledger!vars)
      OBVIOUS
    <2>1. CASE \E c \in Calls : Activate(c)
      BY <2>1, ActivateMapped
    <2>2. CASE Tick
      <3>1. Ledger!Pass
        BY <2>2 DEF Tick, Ledger!Pass
      <3>2. QED BY <3>1 DEF Ledger!Next
    <2>3. CASE ~(\E c \in Calls : Activate(c)) /\ SubRests
      BY <2>3, SettledRests, RestsMapped
    <2>4. QED BY <2>1, <2>2, <2>3, NextRelaxes
  <1>3. QED BY <1>1, <1>2, TypeCorrect, PTL DEF Spec, LedgerSpec, Ledger!Spec
=============================================================================
