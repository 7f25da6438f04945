CONSTANTS
  Numbers = {n1}
  Passwords = {p1, p2}
  Second = 2
  AccessTTL = 2
  RefreshTTL = 3
  MaxTokens = 4
  MaxTime = 4
SPECIFICATION Spec
SYMMETRY Twins
INVARIANTS
    OneTokenServes
    SessionKeepsItsAccount
PROPERTIES
    ExchangesAreCurrent
