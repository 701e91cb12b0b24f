SPECIFICATION FairSpec
CONSTANTS
  Callers = {c1, c2}
  Names = {alice, bob}
  Anonymous = {x, y}
  Nobody = Nobody
  NoUser = NoUser
  NoTransition = NoTransition
INVARIANTS
  JournalIInv
  RestartKeepsIdentity
PROPERTIES
  RestartsSettleTheJournal
  JournaledTransitionSurvives
  SwitchIsDurable
