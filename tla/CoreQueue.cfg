SPECIFICATION Spec
CONSTANTS
  Callers = {c1}
  Users = {alice, bob, anon}
  Anonymous = {anon}
  Transactions = {t1, t2}
  Nobody = Nobody
  NoUser = NoUser
  NoTransaction = NoTransaction
  NoInfo = NoInfo
  NoTransition = NoTransition
SYMMETRY Interchangeable
INVARIANTS
  RecoveryArmed
  IInv
PROPERTIES
  TransitionOnlyCompletes
