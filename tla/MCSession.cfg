SPECIFICATION Spec
CONSTANTS
  Tabs = {t1, t2}
  Requests = {q1, q2}
  SignIns = {a1, a2}
  MaxFaults = 1
SYMMETRY Symmetry
CHECK_DEADLOCK FALSE
INVARIANTS SingleFlight NobodyStranded OneSessionPerSignIn
PROPERTIES SessionsReplaced RetriedInItsSession NeverRacesItself
