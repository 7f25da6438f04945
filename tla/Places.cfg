CONSTANTS
  MaxBytes = 2
  MaxPlaces = 2
  Answers <- MCAnswers
  Null = Null
SPECIFICATION Spec
CHECK_DEADLOCK FALSE
INVARIANTS
    TimeoutIsTheDeadline
    NothingLeftBehind
PROPERTIES
    EveryRequestEnds
