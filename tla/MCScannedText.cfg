CONSTANTS
  Ranges <- SmallRanges
  Priorities = {0, 1}
  MaxBuilt = 5
  MaxRules = 2
  RuleLists <- SmallRuleLists
  Texts <- TextsFor
  Alphabet <- SmallAlphabet
  MaxWord = 4
SPECIFICATION Spec
INVARIANTS
  AcceptsItsLanguage
  InitialNeverReentered
  LongestMatch
  NothingLost
  OneReading
CHECK_DEADLOCK FALSE
