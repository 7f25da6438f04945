CONSTANTS
  Limit = 2
  Window = 2
  MaxTime = 2
  Ids = {1, 2, 3}
  Statuses = {"DRAFT", "PUBLISHED"}
  Any = Any
  PageLimits = {1, 2}
  MaxOffset = 1
  MaxTouched = 2
SPECIFICATION Spec
INVARIANTS
    WindowHeld
    WalkMissesNothing
    ShownOnceWhenQuiet
