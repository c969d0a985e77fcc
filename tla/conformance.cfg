CONSTANTS
  None = None
  Reach = 2
  Longest = 2
  Category <- MCCategory
  Encodable = {1}
  Levels <- MCLevels
  Kinds = {"boolean", "integer", "float", "text", "binary", "list", "sampled_from", "one_of", "dict", "origin", "error"}
  Asked <- MCAsked
  Cases <- MCCases
  Native = 1
  LargestSize = 2
  Points <- MCPoints
  Codepoints = {2}
  Spacing = 4
  Spread = 1
  Width = 2

SPECIFICATION Spec
INVARIANTS
  AnswerFits
  RightLibraryPasses
  PassMeansLegal
CHECK_DEADLOCK FALSE
