SPECIFICATION FairSpec
CONSTANTS
  Calls = {c1, c2}
  Products = {p1}
  Tokens = {t1}
  MaxCorrelated = 1
  Prompt = FALSE
  MaxFaults = 1
  MaxCrashes = 0
  MaxGifts = 0
  NONE = NONE
INVARIANTS
  StoreIInv
PROPERTIES
  EveryCallIsAnswered
  AnsweredOnce
