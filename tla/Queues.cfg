SPECIFICATION QueuesSpec
CONSTANTS
  ana = ana
  bob = bob
  b1 = b1
  b2 = b2
  d1 = d1
  d2 = d2
  MaxAttempts = 2
  \* invoices
  Users = {ana}
  MaxRequests = 2
  OwnerOf <- OneAsker
  Workers = {d1, d2}
  MaxCrashes = 1
  \* proofs
  Askers = {ana, bob}
  Bills = {b1, b2}
  BillOwner <- OneEach
  NoBill = none
  Provers = {d1}
  MaxQuestions = 2
  MaxChanges = 1
  MaxStumbles = 2
INVARIANTS QueuesTypeOK IssuedOnce AnswerIsTrue ProofVouchesForOurs StrangerLearnsNothing
PROPERTIES EventuallyAnswered
CHECK_DEADLOCK FALSE
