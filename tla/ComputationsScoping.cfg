SPECIFICATION Spec
CONSTANTS
  MaxLoop = 3
  SwapOutcome = "lost"
  MaxSteps = 2
  Starts <- ScopingStarts
  Parts <- ScopingParts
  Arguments <- MCArguments
  Texts <- MCTexts
  Urls <- MCUrls
  Configs <- MCConfigs
  Special <- MCSpecial
  RecursionLimit = 8
INVARIANT
  LexicallyScoped
CHECK_DEADLOCK FALSE
