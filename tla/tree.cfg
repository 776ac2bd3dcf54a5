SPECIFICATION Spec
CONSTANTS
  AttNames = {"a", "b"}
  AttValues <- MCAttValues
  Attributed = {1}
  MaxNodes = 6
INVARIANT ListsAgree
INVARIANT ContentKept
CHECK_DEADLOCK FALSE
