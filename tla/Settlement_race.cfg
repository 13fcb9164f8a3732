SPECIFICATION Spec
CONSTANTS
  UnderpayPct = 5
  UnderpayCapUsd = 1
  OverpayPct = 50
  OverpayFloorUsd = 5
  RawPerUsdNum = 1
  RawPerUsdDen = 1
  UsdQuantum = 1
  CreditThresholdUsd = 150
  MinConfirmations = 1
  MaxHeight = 2
  MaxFork = 1
  i1 = i1
  p1 = p1
  p2 = p2
  p3 = p3
  w1 = w1
  w2 = w2
  NoInvoice = NoInvoice
  NoPayment = NoPayment
  Invoices = {i1}
  Payments = {p1, p2}
  Workers = {w1, w2}
  InvoiceOf <- TwoInvoiceOf
  Amount <- StrayAmount
  Due <- OneDue
  Tamperable = {}
  OwnerActs = FALSE
  RateLockUntil = 0
  TopupUntil = 1
  MaxTime = 2
INVARIANTS GrantIsSettled
CHECK_DEADLOCK FALSE
