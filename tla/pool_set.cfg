CONSTANTS
  MaxAdds = 4
  Unissued = {}

SPECIFICATION Spec
INVARIANTS
  LastIsLive
PROPERTIES
  ImplementsSet
CHECK_DEADLOCK FALSE
