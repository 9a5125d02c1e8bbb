\* Two orders of one account under two keys, or one order over a longer time or
\* of either offer (see Small): renewal before and at the end of the paid period.
CONSTANTS
  Users = {u1}
  Orders = {o1, o2}
  Invoices = {i1, i2}
  Payments = {p1, p2}
  Calls = {c1, c2}
  Keys = {k1, k2}
  month = month
  year = year
  Offers = {month, year}
  PeriodLen <- MCPeriodLen
  TrialLen = 1
  OrderLife = 1
  MaxTime = 2
  NoOffer = NoOffer
  NoInvoice = NoInvoice
  NoPayment = NoPayment
SPECIFICATION Spec
CONSTRAINT Small
SYMMETRY Symmetric
INVARIANT TypeOK
INVARIANT Consistent
INVARIANT PaidMeansApproved
INVARIANT OneOpenOrder
PROPERTY OrdersOnlyAdvance
PROPERTY LedgerSpec
CHECK_DEADLOCK FALSE
