SPECIFICATION SchedulersSpec
CONSTANTS
  Callers = {c1, c2}
  Attempts = 2
  PlayStore = TRUE
  MaxEvents = 3
  Requests = {r1, r2}
  MaxDelay = 4
  MaxTasks = 3
CHECK_DEADLOCK FALSE
INVARIANTS
  SchedulersIInv
  DebtHoldsCallsBack
  NothingForgotten
  PurchaseNeverMeetsSync
PROPERTIES
  DebtsAreSettled
  WaitingCallsGoOn
  QueueIsServed
