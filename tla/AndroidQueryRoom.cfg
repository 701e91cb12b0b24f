SPECIFICATION Spec
CONSTANTS
  Calls = {c1}
  Products = {p1}
  Tokens = {t1}
  MaxCorrelated = 1
  Prompt = TRUE
  MaxFaults = 0
  MaxCrashes = 0
  MaxGifts = 0
  NONE = NONE
PROPERTIES
  QueryMakesRoom
