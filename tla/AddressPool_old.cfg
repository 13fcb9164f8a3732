SPECIFICATION PoolSpec
CONSTANTS
  d1 = d1
  d2 = d2
  s1 = s1
  t1 = t1
  Derivers = {d1}
  Settlers = {s1}
  Transfers = {t1}
  MaxAddresses = 2
  MaxInvoices = 2
  MaxTime = 2
  MaxFailures = 1
  MaxActive = 1
  Window = 1
  Cooldown = 1
  MaxLag = 1
INVARIANTS OldMoneyIsNotCredited
CHECK_DEADLOCK FALSE
