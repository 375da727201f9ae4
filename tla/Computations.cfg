SPECIFICATION Spec
CONSTANTS
  MaxLoop = 3
  SwapOutcome = "lost"
  MaxSteps = 2
  Starts <- MCStarts
  Parts <- MCParts
  Arguments <- MCArguments
  Texts <- MCTexts
  Urls <- MCUrls
  Configs <- MCConfigs
  Special <- MCSpecial
  RecursionLimit = 8
INVARIANTS
  RunsAsMeant
  CallsAsMeant
  AuthoredIsWellFormed
  AuthoredAlike
  JavaGetsTheText
CHECK_DEADLOCK FALSE
