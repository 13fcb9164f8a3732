SPECIFICATION WatcherSpec
CONSTANTS
  p1 = p1
  p2 = p2
  p3 = p3
  MaxHeight = 4
  MaxFork = 2
  ForkAt = 1
  Payments = {p1, p2, p3}
  InBlock <- TrunkAndBranches
  MaxBlocksPerStep = 3
  InitialLookback = 4
  MaxReorgDepth = 1
  ConfirmDepth = 2
  UseFinalizedTag = TRUE
  MaxSwitches = 1
  MaxFaults = 0
INVARIANTS NoInvisiblePayment
CHECK_DEADLOCK FALSE
