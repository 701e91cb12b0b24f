SPECIFICATION Spec
CONSTANTS
  Calls = {c1, c2}
  Products = {p1, p2}
  Tokens = {t1, t2}
  MaxCorrelated = 2
  Prompt = TRUE
  MaxFaults = 1
  MaxCrashes = 1
  MaxGifts = 1
  NONE = NONE
SYMMETRY Interchangeable
INVARIANTS
  OlderNeverConsumesNewer
  ResolvedContextSurvives
  NothingOrphaned
  ContextIsTrue
PROPERTIES
  UnreadableJournalIsKept
  NoSecondPayment
