\* Liveness: an approved payment that matches its order is applied.
CONSTANTS
  Users = {u1}
  Orders = {o1}
  Invoices = {i1, i2}
  Payments = {p1}
  Calls = {c1, c2}
  Keys = {k1}
  month = month
  year = year
  Offers = {month}
  PeriodLen <- MCPeriodLen
  TrialLen = 1
  OrderLife = 1
  MaxTime = 1
  NoOffer = NoOffer
  NoInvoice = NoInvoice
  NoPayment = NoPayment
SPECIFICATION FairSpec
PROPERTY MatchedPaymentSettles
CHECK_DEADLOCK FALSE
