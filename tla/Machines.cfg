SPECIFICATION MachinesSpec
CONSTANTS
  \* policy
  UnderpayPct = 100
  UnderpayCapUsd = 1
  OverpayPct = 100
  OverpayFloorUsd = 1
  RawPerUsdNum = 7
  RawPerUsdDen = 3
  UsdQuantum = 2
  CreditThresholdUsd = 5
  MinConfirmations = 2
  MaxDue = 30
  MaxTotal = 40
  MaxHead = 2
  \* walker
  p1 = p1
  p2 = p2
  p3 = p3
  MaxHeight = 4
  MaxFork = 3
  ForkAt = 1
  Payments = {p1, p2, p3}
  InBlock <- TrunkAndBranches
  MaxBlocksPerStep = 2
  InitialLookback = 1
  MaxReorgDepth = 1
  ConfirmDepth = 2
  UseFinalizedTag = TRUE
  MaxSwitches = 2
  MaxFaults = 1
  \* providers
  Slots = 2
  TriesPerSlot = 2
  Threshold = 2
  BaseCooldown = 1
  MaxCooldown = 2
  Limit = 2
  \* chunks
  FirstBlock = 5
  LastBlock = 8
  Listed = 2
  MaxSpan = 3
  MaxGroup = 2
  \* quota
  d1 = d1
  d2 = d2
  Issuers = {d1, d2}
  MaxIssued = 3
  MaxClock = 2
  MaxActiveInvoices = 2
  MaxPerHour = 1
  Hour = 1
  StreakLimit = 2
  CooldownTime = 1
  InvoiceTtl = 0
  \* rate
  ana = ana
  bob = bob
  redis = redis
  here = here
  Whole = Whole
  Chats = {ana, bob}
  Stores = {redis, here}
  Local = {here}
  GlobalBurst = 2
  GlobalRate = 2
  ChatBurst = 1
  ChatRate = 1
  MaxTicks = 3
  \* outbox
  n1 = n1
  n2 = n2
  x = x
  y = y
  Buyers = {ana}
  MaxNotes = 2
  BuyerOf <- AllAna
  Invoices = {x, y}
  InvoicesFor <- FirstOnX
  NoInvoice = NoInvoice
  Corrections = {2}
  Unsendable = {1}
  Senders = {n1, n2}
  Batch = 1
  MaxTries = 2
  MaxLapses = 1
  MaxLeaves = 1
  \* audit
  Accounts = {1, 2}
  Transfers = {1, 2}
  AccountOf <- PaidBy
  AmountOf <- WorthOf
  DriftLimit = 1
INVARIANTS MachinesTypeOK Linked RowsWereVerified CrashLosesNothing DownIsLeftAlone LogsAreWhole QuotaHolds LimitHeld OwnMessageOnly EveryTryCounted ShortfallIsReal ToleranceRespected
PROPERTIES SentStands NotesGetOut WalkerEndsOnTheNetwork
CHECK_DEADLOCK FALSE
