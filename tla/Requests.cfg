SPECIFICATION RequestsSpec
CONSTANTS
  \* commands
  Cases = {c1, c2}
  LargeCases = {c1, c2}
  StrayCases = {}
  Verbs = {"credit"}
  Settlers = {s1, s2}
  Keyed = {s1}
  BatchSize = 1
  MaxCommands = 2
  MaxPeriods = 2
  MaxDeaths = 1
  \* addresses
  Addresses = {a}
  Hands = {h1, h2}
  MaxFaults = 2
  MaxAttempts = 2
INVARIANTS RequestsTypeOK RepliesAreTrue LargeCreditsConfirmed
PROPERTIES EveryCommandAnswered EveryAddressSettles
CHECK_DEADLOCK FALSE
