SPECIFICATION Spec
CONSTANTS
  Callers = {c1, c2}
  Names = {alice}
  Anonymous = {x, y}
  Nobody = Nobody
  NoUser = NoUser
  NoTransition = NoTransition
PROPERTIES
  LogOutIsFresh
