CONSTANTS
  Ids = {1, 3}
  Workers = 2
  MaxCommands = 2

SPECIFICATION Spec
INVARIANTS
  ReplyComesFirst
CHECK_DEADLOCK FALSE
