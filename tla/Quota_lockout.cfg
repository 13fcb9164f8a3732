SPECIFICATION QuotaSpec
CONSTANTS
  Issuers = {"d1"}
  MaxIssued = 3
  MaxClock = 4
  MaxActiveInvoices = 2
  MaxPerHour = 1
  Hour = 1
  StreakLimit = 2
  CooldownTime = 2
  InvoiceTtl = 0
INVARIANTS CooldownLapses
CHECK_DEADLOCK FALSE
