\* Evidence is refused for the tag a failed attempt left.
SPECIFICATION MCSpec
CONSTANTS
  None = None
  f1 = f1
  s_code = s_code
  s_review = s_review
  t_code = t_code
  Steps = {s_code, s_review}
  Flow <- PairFlow
  Tags = {t_code}
  Families = {f1}
  TransientRetries = 0
  Start = s_code
  AdapterKinds = {"capability"}
  WorkerKinds = {"owner_question"}
  BotOf <- PairBots
  MaxCrashes = 0
  MaxOwner = 2
PROPERTIES
  TagRecovered
CHECK_DEADLOCK FALSE
