\* A run is reopened while a worker it does not know of executes.
SPECIFICATION MCSpec
CONSTANTS
  None = None
  f1 = f1
  s_code = s_code
  s_review = s_review
  t_code = t_code
  Steps = {s_code, s_review}
  Flow <- PairFlow
  Tags = {t_code}
  Families = {f1}
  TransientRetries = 0
  Start = s_code
  AdapterKinds = {"capability"}
  WorkerKinds = {"owner_question"}
  BotOf <- PairBots
  MaxCrashes = 1
  MaxOwner = 2
PROPERTIES
  ReopenSettled
CHECK_DEADLOCK FALSE
