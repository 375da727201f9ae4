SPECIFICATION FairSpec
CONSTANTS
  a1 = a1
  a2 = a2
  Callers = {a1, a2}
  NoCaller = NoCaller
  Tokens = {"math", "finish", "observation"}
  Configs = {"good", "bad"}
  Loadable = {"good"}
  MaxTokens <- MCMaxTokens
  n_ctx = 3
  handler = "shared"
  CacheKeys = {"default_key"}
  default_key = "default_key"
  max_messages_per_key_ = 2
  num_steps = 2
  ConfigOf <- MCConfigOf
  MaxRuns = 2
INVARIANTS
  ContextIsRecentWrites
  ContextIsOfTheRun
  DecodesOwnTokens
  RunsGoOn
PROPERTIES
  RunsReturn
CHECK_DEADLOCK FALSE
