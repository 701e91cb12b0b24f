SPECIFICATION ReturnsSpec
CONSTANTS
  Callers = {c1, c2}
  Users = {alice, anon}
  Anonymous = {anon}
  Transactions = {t1}
  Nobody = Nobody
  NoUser = NoUser
  NoTransaction = NoTransaction
  NoInfo = NoInfo
  NoTransition = NoTransition
PROPERTIES
  EveryCallReturns
