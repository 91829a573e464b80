SPECIFICATION Spec
CONSTANTS
  Forever = Forever
  Invalid = Invalid
  Star = Star
  Never = Never
  U64Max = 63
  I64Max = 31
  Minute = 2
  Hour = 4
  Day = 12
  Matches <- DataMatches
  Width <- DataWidth
  Lower <- DataLower
  MaxRules = 2
  MaxDepth = 3
  MaxName = 2
  Letters = {"a", "A", "_", "%", "e"}
INVARIANTS DurationsFaithful InstantsExact PathsInside FoldersConsistent ConfigsTotal OptionsResolved  RenamesExactly
CHECK_DEADLOCK FALSE
