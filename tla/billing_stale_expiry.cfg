\* A status request expires an account that has just been paid for.
CONSTANTS
  Users = {u1}
  Orders = {o1}
  Invoices = {i1}
  Payments = {p1}
  Calls = {c1, c2}
  Keys = {k1}
  month = month
  year = year
  Offers = {month}
  PeriodLen <- MCPeriodLen
  TrialLen = 1
  OrderLife = 1
  MaxTime = 1
  NoOffer = NoOffer
  NoInvoice = NoInvoice
  NoPayment = NoPayment
SPECIFICATION Spec
INVARIANT PaidPeriodAvailable
CHECK_DEADLOCK FALSE
