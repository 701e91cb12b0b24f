SPECIFICATION Spec
CONSTANTS
  Users = {alice, bob}
  Callers = {c1, c2}
  Fetchers = {f}
  Nothing = Nothing
  Receipts = {r1}
  NoToken = NoToken
  Nobody = Nobody
  MaxCalls = 2
  MaxTime = 1
  NoEntry = NoEntry
  NoReply = NoReply
  NoRequest = NoRequest
  NoResult = NoResult
  MaxStored = 3
  BatchSize = 2
  MaxRetries = 2
  MaxEvents = 4
  Fingerprints = {f1, f2}
  Plans = {p1, p2}
  NoPlan = NoPlan
  MaxPerUser = 1
  MaxKnown = 1
  StoreProducts = {coins}
  Transactions = {t1, t2}
  Queries = {q1}
  Updates = Updates
  MaxJournal = 1
  MaxRemembered = 1
  MaxAttempts = 2
  Scopes <- IosScopes
  NoProduct = NoProduct
  NoTransaction = NoTransaction
  Period = 2
  GraceDays = 3
  MaxDay = 8
  Never = Never
  NoUser = NoUser
  MaxVersion = 2
  TestKeys = {testKey}
  StoreKeys = {storeKey}
  Names = {carol, dave}
  Anonymous = {x, y}
  Absent = Absent
  Empty = Empty
  Blank = Blank
  TooLong = TooLong
  CallOptions <- ConfiguredWith
  NoInstance = NoInstance
  NoOptions = NoOptions
SYMMETRY Interchangeable
CHECK_DEADLOCK FALSE
INVARIANTS
  TypesOK
  ConfiguredAsAsked
  OnlyLateAnswersRevive
  VerifiedIsGenuine
  HandledOnce
  EventsAreAccountedFor
  PackageKeepsItsPlan
  AttributionIsKept
  UpdatesAreHeard
PROPERTIES
  FetchedEntitlementsEnd
