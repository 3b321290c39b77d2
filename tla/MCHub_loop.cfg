\* Implementation, bounded correction, bounded review and publication.
SPECIFICATION MCSpec
CONSTANTS
  None = None
  f1 = f1
  f2 = f2
  s_go = s_go
  s_code = s_code
  s_fix = s_fix
  s_review = s_review
  s_pr = s_pr
  s_merge = s_merge
  t_code = t_code
  Steps <- LoopSteps
  Flow <- LoopFlow
  Tags = {t_code}
  Families = {f1, f2, None}
  TransientRetries = 0
  Start = s_code
  AdapterKinds = {"capability"}
  WorkerKinds = {"test_defect"}
  MaxOwner = 1
PROPERTIES
  IndependentReview
  ComesToRest
CHECK_DEADLOCK FALSE
